---- MODULE Spec2Model ----
(***************************************************************************)
(* Reverse-process sampling of cleandiffuser/diffusion/diffusionsde.py:    *)
(* DiscreteDiffusionSDE.sample and ContinuousDiffusionSDE.sample with the  *)
(* guidance, clipping and conversion helpers of BaseDiffusionSDE.          *)
(*                                                                         *)
(* Tensors are functions from the coordinates of one sample to exact       *)
(* rationals <<numerator, denominator>> (denominator > 0, lowest terms);   *)
(* every tensor operation of the source is elementwise, so one sample of   *)
(* the batch is followed.  <<0, 0>> is NaN: the result of a division by    *)
(* zero, of a logarithm of a non-positive number or of a square root of a  *)
(* negative number, and absorbing under every arithmetic operation.        *)
(* Logarithms and exponentials are taken to base 2 (a change of unit of    *)
(* logSNR that cancels in every formula of the sampler); between integer   *)
(* exponents 2^x is interpolated linearly, so exp and log stay exact       *)
(* inverses of each other and strictly increasing.                         *)
(***************************************************************************)
EXTENDS Integers, Sequences, FiniteSets, TLC

\* ------------------------------------------------------------------------
\* Rational arithmetic (torch float tensors, exact)
\* ------------------------------------------------------------------------
Abs(n) == IF n < 0 THEN -n ELSE n

RECURSIVE Gcd(_, _)
Gcd(a, b) == IF b = 0 THEN a ELSE Gcd(b, a % b)

NaN == <<0, 0>>
IsNaN(q) == q[2] = 0

Norm(n, d) ==
    IF d = 0 THEN NaN
    ELSE LET g == Gcd(Abs(n), Abs(d))
             s == IF d < 0 THEN -1 ELSE 1
         IN  <<(s * n) \div g, (s * d) \div g>>

R(n) == <<n, 1>>
Frac(n, d) == Norm(n, d)

\* a + b over the least common denominator
RAdd(a, b) ==
    IF IsNaN(a) \/ IsNaN(b) THEN NaN
    ELSE LET g == Gcd(a[2], b[2])
         IN  Norm(a[1] * (b[2] \div g) + b[1] * (a[2] \div g), (a[2] \div g) * b[2])
RNeg(a) == IF IsNaN(a) THEN NaN ELSE <<-a[1], a[2]>>
RSub(a, b) == RAdd(a, RNeg(b))
\* a * b, cancelling across before multiplying
RMul(a, b) ==
    IF IsNaN(a) \/ IsNaN(b) THEN NaN
    ELSE LET g1 == Gcd(Abs(a[1]), b[2])
             g2 == Gcd(Abs(b[1]), a[2])
         IN  Norm((a[1] \div g1) * (b[1] \div g2), (a[2] \div g2) * (b[2] \div g1))
RDiv(a, b) ==
    IF IsNaN(a) \/ IsNaN(b) \/ b[1] = 0 THEN NaN
    ELSE RMul(a, IF b[1] < 0 THEN <<-b[2], -b[1]>> ELSE <<b[2], b[1]>>)
RLt(a, b) ==
    LET g == Gcd(a[2], b[2]) IN a[1] * (b[2] \div g) < b[1] * (a[2] \div g)
RLe(a, b) ==
    LET g == Gcd(a[2], b[2]) IN a[1] * (b[2] \div g) <= b[1] * (a[2] \div g)
RSq(a) == RMul(a, a)

RECURSIVE Pow2(_)
Pow2(m) == IF m = 0 THEN R(1)
           ELSE IF m > 0 THEN RMul(R(2), Pow2(m - 1))
           ELSE RMul(Frac(1, 2), Pow2(m + 1))

\* floor of a rational
Floor(q) == q[1] \div q[2]

\* torch.exp, in base 2
Exp(q) ==
    IF IsNaN(q) THEN NaN
    ELSE LET m == Floor(q) IN RMul(Pow2(m), RAdd(R(1), RSub(q, R(m))))

\* torch.expm1
Expm1(q) == RSub(Exp(q), R(1))

RECURSIVE FloorLog2(_)
FloorLog2(q) ==
    IF RLt(q, R(1)) THEN FloorLog2(RMul(q, R(2))) - 1
    ELSE IF RLe(R(2), q) THEN FloorLog2(RMul(q, Frac(1, 2))) + 1
    ELSE 0

\* torch.log, in base 2
Log(q) ==
    IF IsNaN(q) \/ q[1] <= 0 THEN NaN
    ELSE LET m == FloorLog2(q) IN RAdd(R(m), RSub(RDiv(q, Pow2(m)), R(1)))

RECURSIVE ISqrtBetween(_, _, _)
ISqrtBetween(n, lo, hi) ==
    IF lo >= hi THEN lo
    ELSE LET mid == (lo + hi + 1) \div 2
         IN  IF mid * mid <= n THEN ISqrtBetween(n, mid, hi) ELSE ISqrtBetween(n, lo, mid - 1)

\* integer square root, rounded down (n < 2^30)
ISqrt(n) == ISqrtBetween(n, 0, 32767)

\* torch.sqrt: exact on perfect squares, rounded down to a multiple of 1/16 otherwise
Sqrt(q) ==
    IF IsNaN(q) \/ q[1] < 0 THEN NaN
    ELSE LET rn == ISqrt(q[1])
             rd == ISqrt(q[2])
         IN  IF rn * rn = q[1] /\ rd * rd = q[2] THEN Frac(rn, rd)
             ELSE Frac(ISqrt((q[1] * 256) \div q[2]), 16)

\* ------------------------------------------------------------------------
\* Tensors: one sample, a sequence of rationals indexed by coordinate
\* ------------------------------------------------------------------------
None == <<>>

\* a sequence built by a function constructor, as a tuple
Tup(f) == SubSeq(f, 1, Len(f))

TAdd(a, b) == Tup([c \in DOMAIN a |-> RAdd(a[c], b[c])])
TSub(a, b) == Tup([c \in DOMAIN a |-> RSub(a[c], b[c])])
TMul(a, b) == Tup([c \in DOMAIN a |-> RMul(a[c], b[c])])
\* scalar * tensor
TScale(s, a) == Tup([c \in DOMAIN a |-> RMul(s, a[c])])
\* tensor / scalar
TOver(a, s) == Tup([c \in DOMAIN a |-> RDiv(a[c], s)])
TOnes(a) == Tup([c \in DOMAIN a |-> R(1)])
TZeros(a) == Tup([c \in DOMAIN a |-> R(0)])

\* A float tensor as it is stored by an assignment of sample(): sample() keeps
\* its schedule arrays and its per-step tensors at the precision of the
\* model, multiples of 1/64 (rounded down).
Stored(a) ==
    Tup([c \in DOMAIN a |->
            IF IsNaN(a[c]) THEN NaN ELSE Frac(Floor(RMul(R(64), a[c])), 64)])

RMin(a, b) == IF IsNaN(a) \/ IsNaN(b) THEN NaN ELSE IF RLe(a, b) THEN a ELSE b
RMax(a, b) == IF IsNaN(a) \/ IsNaN(b) THEN NaN ELSE IF RLe(a, b) THEN b ELSE a

\* torch.Tensor.clip(min, max), either bound possibly None: min(max(x, lo), hi)
TClip(a, lo, hi) ==
    Tup([c \in DOMAIN a |->
            LET low == IF lo = None THEN a[c] ELSE RMax(a[c], lo[c])
            IN  IF hi = None THEN low ELSE RMin(low, hi[c])])

\* ------------------------------------------------------------------------
\* Module-level definitions of diffusionsde.py
\* ------------------------------------------------------------------------
SUPPORTED_SOLVERS ==
    {"ddpm", "ddim", "ode_dpmsolver_1", "ode_dpmsolver++_1", "ode_dpmsolver++_2M",
     "sde_dpmsolver_1", "sde_dpmsolver++_1", "sde_dpmsolver++_2M"}

\* the conversion to the data form with alpha and sigma exchanged
epstheta_to_xtheta_Exchanged(x, alpha, sigma, eps_theta) ==
    TOver(TSub(x, TScale(alpha, eps_theta)), sigma)

\* x_theta = (x - sigma * eps_theta) / alpha
epstheta_to_xtheta(x, alpha, sigma, eps_theta) == TOver(TSub(x, TScale(sigma, eps_theta)), alpha)

\* eps_theta = (x - alpha * x_theta) / sigma
xtheta_to_epstheta(x, alpha, sigma, x_theta) == TOver(TSub(x, TScale(alpha, x_theta)), sigma)

\* ------------------------------------------------------------------------
\* External collaborators: deterministic oracles and registries
\* ------------------------------------------------------------------------
\* model["diffusion"](xt, t, condition): the condition may be None, a condition
\* vector, or the zeroed vector of the doubled batch
Predictor(xt, t, condition) ==
    LET cterm == IF condition = None THEN R(0) ELSE RAdd(condition[1], R(1))
    IN  Tup([c \in DOMAIN xt |->
                RAdd(RAdd(RMul(Frac(1, 2), xt[c]), RMul(Frac(1, 4), t)), cterm)])

\* model["condition"](condition_cfg, mask_cfg)
ConditionEncoder(condition_cfg, mask_cfg) == <<RAdd(condition_cfg[1], R(1))>>

\* concat_zeros(condition, dim=0): the second half of the doubled batch
ZeroedCondition(condition) == Tup([c \in DOMAIN condition |-> R(0)])

\* classifier.logp(x, t, condition)
ClassifierLogp(xt, t, condition) == RNeg(xt[Len(xt)])

\* classifier.gradients(x, t, condition) = (log_p, grad)
ClassifierGradients(xt, t, condition) ==
    [log_p |-> ClassifierLogp(xt, t, condition), grad |-> TScale(Frac(-1, 2), xt)]

\* noise_schedule["forward"](t): alpha and sigma at time t
NoiseScheduleForward(t) ==
    LET k == RSub(R(2), RMul(R(4), t))
    IN  IF k[1] >= 0 THEN [alpha |-> R(1), sigma |-> Exp(RNeg(k))]
        ELSE [alpha |-> Exp(k), sigma |-> R(1)]

\* torch.linspace(a, b, n + 1)[j]
Linspace(a, b, n, j) == RAdd(a, RMul(RSub(b, a), Frac(j, n)))

\* SUPPORTED_DISCRETIZATIONS["uniform"](diffusion_steps, epsilon)
UniformDiscretization(T, epsilon) ==
    Tup([j \in 1..T |-> Linspace(epsilon, R(1), T - 1, j - 1)])

\* SUPPORTED_SAMPLING_STEP_SCHEDULE["uniform"](diffusion_steps, sample_steps):
\* sample_steps + 1 ladder indices from 0 to diffusion_steps - 1, as long integers
UniformStepSchedule(T, sample_steps) ==
    Tup([j \in 1..(sample_steps + 1) |-> ((j - 1) * (T - 1)) \div sample_steps])

\* SUPPORTED_SAMPLING_STEP_SCHEDULE["uniform_continuous"](t_diffusion, sample_steps)
UniformContinuousStepSchedule(t_diffusion, sample_steps) ==
    Tup([j \in 1..(sample_steps + 1) |->
            Linspace(t_diffusion[1], t_diffusion[2], sample_steps, j - 1)])

\* a caller-supplied step schedule (discrete): indices rounded up
CallableStepSchedule(T, sample_steps) ==
    Tup([j \in 1..(sample_steps + 1) |-> -((-((j - 1) * (T - 1))) \div sample_steps)])

\* a caller-supplied step schedule (continuous): quadratic spacing
CallableContinuousStepSchedule(t_diffusion, sample_steps) ==
    Tup([j \in 1..(sample_steps + 1) |->
            RAdd(t_diffusion[1],
                 RMul(RSub(t_diffusion[2], t_diffusion[1]),
                      Frac((j - 1) * (j - 1), sample_steps * sample_steps)))])

\* Python's 0-based indexing of a sequence
At(a, i) == a[i + 1]

\* Python's a[-k]
FromEnd(a, k) == a[Len(a) - k + 1]

\* int(x) of a non-negative float
PyInt(q) == Floor(q)

\* ------------------------------------------------------------------------
\* BaseDiffusionSDE
\* ------------------------------------------------------------------------
\* property clip_pred
clip_pred(self) == (self.x_max # None) \/ (self.x_min # None)

\* classifier guidance that asks for the gradients whatever the weight is
classifier_guidance_AnyWeight(self, xt, t, alpha, sigma, condition, w, pred) ==
    IF ~self.classifier
    THEN [pred |-> pred, log_p |-> None, gradients |-> <<>>]
    ELSE LET g == ClassifierGradients(xt, t, condition)
         IN  [pred |-> IF self.predict_noise
                       THEN TSub(pred, TScale(RMul(w, sigma), g.grad))
                       ELSE TAdd(pred, TScale(RMul(w, RDiv(RSq(sigma), alpha)), g.grad)),
              log_p |-> <<g.log_p>>,
              gradients |-> <<[xt |-> xt, t |-> t, condition |-> condition]>>]

\* bar_eps = eps - w * sigma * grad ; bar_x0 = x0 + w * (sigma ** 2) / alpha * grad
\* (pred is never None when called from guided_sampling)
classifier_guidance(self, xt, t, alpha, sigma, condition, w, pred) ==
    IF (~self.classifier) \/ w = R(0)
    THEN [pred |-> pred, log_p |-> None, gradients |-> <<>>]
    ELSE LET g == ClassifierGradients(xt, t, condition)
         IN  [pred |-> IF self.predict_noise
                       THEN TSub(pred, TScale(RMul(w, sigma), g.grad))
                       ELSE TAdd(pred, TScale(RMul(w, RDiv(RSq(sigma), alpha)), g.grad)),
              log_p |-> <<g.log_p>>,
              gradients |-> <<[xt |-> xt, t |-> t, condition |-> condition]>>]

\* classifier-free guidance without the shortcuts for w = 1 and w = 0: always
\* the doubled batch
classifier_free_guidance_Batched(self, xt, t, condition, w) ==
    IF condition = None
    THEN [raised |-> "ValueError", bar_pred |-> None, predictor |-> <<>>]
    ELSE [raised |-> "",
          bar_pred |-> TAdd(TScale(w, Predictor(xt, t, condition)),
                            TScale(RSub(R(1), w), Predictor(xt, t, ZeroedCondition(condition)))),
          predictor |-> <<[xt |-> xt, t |-> t,
                           conditions |-> <<condition, ZeroedCondition(condition)>>]>>]

\* classifier-free guidance that accepts any condition, None included
classifier_free_guidance_Lenient(self, xt, t, condition, w) ==
    IF w = R(1)
    THEN [raised |-> "",
          bar_pred |-> TAdd(TScale(w, Predictor(xt, t, condition)),
                            TScale(RSub(R(1), w), TZeros(xt))),
          predictor |-> <<[xt |-> xt, t |-> t, conditions |-> <<condition>>]>>]
    ELSE IF w = R(0)
    THEN [raised |-> "",
          bar_pred |-> TAdd(TScale(w, TZeros(xt)),
                            TScale(RSub(R(1), w), Predictor(xt, t, None))),
          predictor |-> <<[xt |-> xt, t |-> t, conditions |-> <<None>>]>>]
    ELSE [raised |-> "",
          bar_pred |-> TAdd(TScale(w, Predictor(xt, t, condition)),
                            TScale(RSub(R(1), w), Predictor(xt, t, ZeroedCondition(condition)))),
          predictor |-> <<[xt |-> xt, t |-> t,
                           conditions |-> <<condition, ZeroedCondition(condition)>>]>>]

\* w * pred + (1 - w) * pred_uncond; predictor: the evaluations of the network
\* made, each with the conditions of its batch
classifier_free_guidance(self, xt, t, condition, w) ==
    IF w = R(1)
    THEN [raised |-> "",
          bar_pred |-> TAdd(TScale(w, Predictor(xt, t, condition)),
                            TScale(RSub(R(1), w), TZeros(xt))),
          predictor |-> <<[xt |-> xt, t |-> t, conditions |-> <<condition>>]>>]
    ELSE IF w = R(0)
    THEN [raised |-> "",
          bar_pred |-> TAdd(TScale(w, TZeros(xt)),
                            TScale(RSub(R(1), w), Predictor(xt, t, None))),
          predictor |-> <<[xt |-> xt, t |-> t, conditions |-> <<None>>]>>]
    ELSE IF condition = None
    THEN [raised |-> "ValueError", bar_pred |-> None, predictor |-> <<>>]
    ELSE [raised |-> "",
          bar_pred |-> TAdd(TScale(w, Predictor(xt, t, condition)),
                            TScale(RSub(R(1), w), Predictor(xt, t, ZeroedCondition(condition)))),
          predictor |-> <<[xt |-> xt, t |-> t,
                           conditions |-> <<condition, ZeroedCondition(condition)>>]>>]

\* clip_prediction with the data bounds applied to the prediction in both modes
clip_prediction_DataBounds(self, pred, xt, alpha, sigma) ==
    IF clip_pred(self) THEN TClip(pred, self.x_min, self.x_max) ELSE pred

\* (xt - alpha * x_max) / sigma <= eps <= (xt - alpha * x_min) / sigma ; x_min <= x0 <= x_max
clip_prediction(self, pred, xt, alpha, sigma) ==
    IF self.predict_noise
    THEN IF clip_pred(self)
         THEN LET upper_bound == IF self.x_min # None
                                 THEN TOver(TSub(xt, TScale(alpha, self.x_min)), sigma) ELSE None
                  lower_bound == IF self.x_max # None
                                 THEN TOver(TSub(xt, TScale(alpha, self.x_max)), sigma) ELSE None
              IN  TClip(pred, lower_bound, upper_bound)
         ELSE pred
    ELSE IF clip_pred(self) THEN TClip(pred, self.x_min, self.x_max) ELSE pred

\* one-step prediction with guidance
guided_sampling(self, xt, t, alpha, sigma, condition_cfg, w_cfg, condition_cg, w_cg) ==
    LET cfg_out == classifier_free_guidance(self, xt, t, condition_cfg, w_cfg)
    IN  IF cfg_out.raised # ""
        THEN [raised |-> cfg_out.raised, pred |-> None, pred_cfg |-> None, logp |-> None,
              predictor |-> <<>>, gradients |-> <<>>]
        ELSE LET cg == classifier_guidance(self, xt, t, alpha, sigma, condition_cg, w_cg,
                                           cfg_out.bar_pred)
             IN  [raised |-> "", pred |-> cg.pred, pred_cfg |-> cfg_out.bar_pred,
                  logp |-> cg.log_p, predictor |-> cfg_out.predictor,
                  gradients |-> cg.gradients]

\* ------------------------------------------------------------------------
\* The one-step update of sample(): the solver branch cascade.
\* alphas, sigmas, hs, stds are indexed 0..sample_steps; noise is the value
\* torch.randn_like(xt) returns when the branch draws it.  The result holds
\* the new xt, the new buffer, whether a random value was drawn and the form
\* of the multistep update ("D": extrapolation, "x_theta": first-order form).
\* ------------------------------------------------------------------------
\* sqrt(sigmas[i-1]^2 - stds[i]^2 + 1e-8): the guard 1e-8 lies below the
\* resolution of Sqrt
DdpmCoefficient(i, sigmas, stds) == Sqrt(RSub(RSq(At(sigmas, i - 1)), RSq(At(stds, i))))

\* no extrapolation: the newest entry of the step memory
MultistepD_FirstOrder(i, hs, buffer) == FromEnd(buffer, 1)

\* the extrapolation with the ratio of the step sizes inverted
MultistepD_InvertedRatio(i, hs, buffer) ==
    LET r == RDiv(At(hs, i), At(hs, i + 1))
    IN  Stored(TSub(TScale(RAdd(R(1), RDiv(Frac(1, 2), r)), FromEnd(buffer, 1)),
                    TScale(RDiv(Frac(1, 2), r), FromEnd(buffer, 2))))

\* the extrapolation with the ratio taken one index lower, hs[i] / hs[i - 1]
MultistepD_LookBehind(i, hs, buffer) ==
    LET r == RDiv(At(hs, i), At(hs, i - 1))
    IN  Stored(TSub(TScale(RAdd(R(1), RDiv(Frac(1, 2), r)), FromEnd(buffer, 1)),
                    TScale(RDiv(Frac(1, 2), r), FromEnd(buffer, 2))))

\* D = (1 + 0.5 / r) * buffer[-1] - 0.5 / r * buffer[-2], r = hs[i + 1] / hs[i]
MultistepD(i, hs, buffer) ==
    LET r == RDiv(At(hs, i + 1), At(hs, i))
    IN  Stored(TSub(TScale(RAdd(R(1), RDiv(Frac(1, 2), r)), FromEnd(buffer, 1)),
                    TScale(RDiv(Frac(1, 2), r), FromEnd(buffer, 2))))

\* (sigmas[i-1] / sigmas[i]) * xt - alphas[i-1] * expm1(-hs[i]) * x
OdeDataForm(i, xt, alphas, sigmas, hs, x) ==
    TSub(TScale(RDiv(At(sigmas, i - 1), At(sigmas, i)), xt),
         TScale(RMul(At(alphas, i - 1), Expm1(RNeg(At(hs, i)))), x))

\* (sigmas[i-1] / sigmas[i]) * exp(-hs[i]) * xt - alphas[i-1] * expm1(-2 hs[i]) * x
\*   + sigmas[i-1] * sqrt(-expm1(-2 hs[i])) * randn
SdeDataForm(i, xt, alphas, sigmas, hs, x, noise) ==
    TAdd(TSub(TScale(RMul(RDiv(At(sigmas, i - 1), At(sigmas, i)), Exp(RNeg(At(hs, i)))), xt),
              TScale(RMul(At(alphas, i - 1), Expm1(RMul(R(-2), At(hs, i)))), x)),
         TScale(RMul(At(sigmas, i - 1), Sqrt(RNeg(Expm1(RMul(R(-2), At(hs, i)))))), noise))

\* the multistep branch taken at the first step as well
Extrapolates_FromFirstStep(i, sample_steps) == i <= sample_steps

\* if i < sample_steps: the multistep solvers extrapolate
Extrapolates(i, sample_steps) == i < sample_steps

\* a step memory that keeps its two newest entries only
RememberStep_KeepTwo(buffer, x_theta) ==
    IF buffer = <<>> THEN <<x_theta>> ELSE <<buffer[Len(buffer)], x_theta>>

\* buffer.append(x_theta)
RememberStep(buffer, x_theta) == Append(buffer, x_theta)

\* ddpm adding its random term in every iteration
DdpmAddsNoise_EveryStep(i) == TRUE

\* if i > 1: xt += stds[i] * torch.randn_like(xt)
DdpmAddsNoise(i) == i > 1

SolverUpdate(solver, i, sample_steps, xt, alphas, sigmas, hs, stds, eps_theta, x_theta, buffer, noise) ==
    CASE solver = "ddpm" ->
           LET mean == TAdd(TScale(RDiv(At(alphas, i - 1), At(alphas, i)),
                                   TSub(xt, TScale(At(sigmas, i), eps_theta))),
                            TScale(DdpmCoefficient(i, sigmas, stds), eps_theta))
           IN  [xt |-> IF DdpmAddsNoise(i) THEN TAdd(mean, TScale(At(stds, i), noise)) ELSE mean,
                buffer |-> buffer, randn |-> DdpmAddsNoise(i), form |-> ""]
      [] solver = "ddim" ->
           [xt |-> TAdd(TScale(At(alphas, i - 1),
                               TOver(TSub(xt, TScale(At(sigmas, i), eps_theta)), At(alphas, i))),
                        TScale(At(sigmas, i - 1), eps_theta)),
            buffer |-> buffer, randn |-> FALSE, form |-> ""]
      [] solver = "ode_dpmsolver_1" ->
           [xt |-> TSub(TScale(RDiv(At(alphas, i - 1), At(alphas, i)), xt),
                        TScale(RMul(At(sigmas, i - 1), Expm1(At(hs, i))), eps_theta)),
            buffer |-> buffer, randn |-> FALSE, form |-> ""]
      [] solver = "ode_dpmsolver++_1" ->
           [xt |-> OdeDataForm(i, xt, alphas, sigmas, hs, x_theta),
            buffer |-> buffer, randn |-> FALSE, form |-> ""]
      [] solver = "ode_dpmsolver++_2M" ->
           LET buf == RememberStep(buffer, x_theta)
           IN  IF Extrapolates(i, sample_steps)
               THEN [xt |-> OdeDataForm(i, xt, alphas, sigmas, hs, MultistepD(i, hs, buf)),
                     buffer |-> buf, randn |-> FALSE, form |-> "D"]
               ELSE [xt |-> OdeDataForm(i, xt, alphas, sigmas, hs, x_theta),
                     buffer |-> buf, randn |-> FALSE, form |-> "x_theta"]
      [] solver = "sde_dpmsolver_1" ->
           [xt |-> TAdd(TSub(TScale(RDiv(At(alphas, i - 1), At(alphas, i)), xt),
                             TScale(RMul(R(2), RMul(At(sigmas, i - 1), Expm1(At(hs, i)))),
                                    eps_theta)),
                        TScale(RMul(At(sigmas, i - 1), Sqrt(Expm1(RMul(R(2), At(hs, i))))),
                               noise)),
            buffer |-> buffer, randn |-> TRUE, form |-> ""]
      [] solver = "sde_dpmsolver++_1" ->
           [xt |-> SdeDataForm(i, xt, alphas, sigmas, hs, x_theta, noise),
            buffer |-> buffer, randn |-> TRUE, form |-> ""]
      [] solver = "sde_dpmsolver++_2M" ->
           LET buf == RememberStep(buffer, x_theta)
           IN  IF Extrapolates(i, sample_steps)
               THEN [xt |-> SdeDataForm(i, xt, alphas, sigmas, hs, MultistepD(i, hs, buf), noise),
                     buffer |-> buf, randn |-> TRUE, form |-> "D"]
               ELSE [xt |-> SdeDataForm(i, xt, alphas, sigmas, hs, x_theta, noise),
                     buffer |-> buf, randn |-> TRUE, form |-> "x_theta"]

\* the update with ancestral noise added after every solver
SolverStep_Noisy(solver, i, sample_steps, xt, alphas, sigmas, hs, stds, eps_theta, x_theta, buffer, noise) ==
    LET upd == SolverUpdate(solver, i, sample_steps, xt, alphas, sigmas, hs, stds, eps_theta,
                            x_theta, buffer, noise)
    IN  [upd EXCEPT !.xt = Stored(TAdd(@, TScale(At(stds, i), noise))), !.randn = TRUE]

\* the update with its result xt stored
SolverStep(solver, i, sample_steps, xt, alphas, sigmas, hs, stds, eps_theta, x_theta, buffer, noise) ==
    LET upd == SolverUpdate(solver, i, sample_steps, xt, alphas, sigmas, hs, stds, eps_theta,
                            x_theta, buffer, noise)
    IN  [upd EXCEPT !.xt = Stored(@)]

\* the fix mask with its two weights exchanged
ApplyFixMask_Exchanged(xt, prior, fix_mask) ==
    TAdd(TMul(xt, fix_mask), TMul(prior, TSub(TOnes(fix_mask), fix_mask)))

\* xt * (1. - fix_mask) + prior * fix_mask
ApplyFixMask(xt, prior, fix_mask) ==
    TAdd(TMul(xt, TSub(TOnes(fix_mask), fix_mask)), TMul(prior, fix_mask))

\* ------------------------------------------------------------------------
\* Construction of the two samplers (the fields sample() reads)
\* ------------------------------------------------------------------------
DiscreteDiffusionSDE(fix_mask, classifier, epsilon, x_max, x_min, predict_noise, diffusion_steps) ==
    LET t_diffusion == UniformDiscretization(diffusion_steps, epsilon)
        alpha == Tup([j \in 1..diffusion_steps |-> NoiseScheduleForward(t_diffusion[j]).alpha])
        sigma == Tup([j \in 1..diffusion_steps |-> NoiseScheduleForward(t_diffusion[j]).sigma])
    IN  [variant |-> "discrete", fix_mask |-> fix_mask, classifier |-> classifier,
         epsilon |-> epsilon, x_max |-> x_max, x_min |-> x_min, predict_noise |-> predict_noise,
         diffusion_steps |-> diffusion_steps, t_diffusion |-> t_diffusion,
         alpha |-> alpha, sigma |-> sigma,
         logSNR |-> Tup([j \in 1..diffusion_steps |-> Log(RDiv(alpha[j], sigma[j]))])]

\* t_diffusion = [epsilon, 1.0], with 0.9946 as its upper end for "cosine"
TimeRange(epsilon, noise_schedule) ==
    <<epsilon, IF noise_schedule = "cosine" THEN Frac(4973, 5000) ELSE R(1)>>

\* (with a noise schedule whose time range ends at 1)
ContinuousDiffusionSDE(fix_mask, classifier, epsilon, x_max, x_min, predict_noise) ==
    [variant |-> "continuous", fix_mask |-> fix_mask, classifier |-> classifier,
     epsilon |-> epsilon, x_max |-> x_max, x_min |-> x_min, predict_noise |-> predict_noise,
     diffusion_steps |-> 0, t_diffusion |-> TimeRange(epsilon, "linear"),
     alpha |-> None, sigma |-> None, logSNR |-> None]

\* ------------------------------------------------------------------------
\* Bounds of the model and the calls explored
\* ------------------------------------------------------------------------
MaxSampleSteps == 3
MaxDiffusionX == 1

Variants == {"discrete", "continuous"}
Epsilon == Frac(1, 8)
Prior == <<R(3), R(-1)>>
FixMasks == {<<R(1), R(0)>>, <<R(0), R(0)>>}
XMin == <<R(-2), R(-2)>>
XMax == <<R(2), R(2)>>
Bounds == {[x_min |-> None, x_max |-> None], [x_min |-> XMin, x_max |-> XMax]}
\* data bounds with one side only
OneSidedBounds == {[x_min |-> XMin, x_max |-> None], [x_min |-> None, x_max |-> XMax]}
\* the values torch.randn_like returns
NoiseDraws == {<<R(1), R(-1)>>, <<R(-2), R(1)>>}
\* sample_step_schedule: a registered name, a callable, an unregistered string,
\* a value that is neither a string nor callable
ScheduleKinds == {"registered", "callable", "unregistered", "number"}
Condition == <<R(1)>>
Reference == <<R(1), R(2)>>

Construct(variant, fix_mask, classifier, bounds, predict_noise) ==
    IF variant = "discrete"
    THEN DiscreteDiffusionSDE(fix_mask, classifier, Epsilon, bounds.x_max, bounds.x_min,
                              predict_noise, 8)
    ELSE ContinuousDiffusionSDE(fix_mask, classifier, Epsilon, bounds.x_max, bounds.x_min,
                                predict_noise)

DefaultArgs ==
    [prior |-> Prior, solver |-> "ddpm", n_samples |-> 1, sample_steps |-> 2,
     sample_step_schedule |-> "registered", temperature |-> R(1),
     condition_cfg |-> None, mask_cfg |-> None, w_cfg |-> R(0),
     condition_cg |-> None, w_cg |-> R(0), diffusion_x_sampling_steps |-> 0,
     warm_start_reference |-> None, warm_start_forward_level |-> Frac(3, 10),
     preserve_history |-> FALSE]

\* calls over solvers, step counts, masks, data bounds and history
SolverCalls ==
    { [self |-> Construct(v, m, FALSE, b, TRUE),
       args |-> [DefaultArgs EXCEPT !.solver = s, !.sample_steps = n,
                                    !.diffusion_x_sampling_steps = dx,
                                    !.preserve_history = h]] :
      v \in Variants, m \in FixMasks, b \in Bounds, s \in SUPPORTED_SOLVERS,
      n \in 1..MaxSampleSteps, dx \in 0..MaxDiffusionX, h \in BOOLEAN }

\* calls over solver names and step-schedule identifiers, valid and invalid
ConfigurationCalls ==
    { [self |-> Construct(v, <<R(1), R(0)>>, TRUE, [x_min |-> None, x_max |-> None], TRUE),
       args |-> [DefaultArgs EXCEPT !.solver = s, !.sample_step_schedule = k,
                                    !.sample_steps = n, !.condition_cfg = Condition,
                                    !.w_cfg = R(1), !.w_cg = R(1),
                                    !.preserve_history = TRUE]] :
      v \in Variants, s \in SUPPORTED_SOLVERS \cup {"euler"}, k \in ScheduleKinds,
      n \in 1..2 }

\* calls over the guidance weights, the conditions and the prediction mode
GuidanceCalls ==
    { [self |-> Construct(v, <<R(1), R(0)>>, c, b, pn),
       args |-> [DefaultArgs EXCEPT !.solver = s, !.condition_cfg = cond, !.w_cfg = w,
                                    !.w_cg = wg, !.diffusion_x_sampling_steps = dx]] :
      v \in Variants, c \in BOOLEAN, b \in Bounds, pn \in BOOLEAN,
      s \in {"ddim", "ode_dpmsolver++_2M", "sde_dpmsolver_1"},
      cond \in {None, Condition}, w \in {R(0), R(1), Frac(1, 2)}, wg \in {R(0), R(1)},
      dx \in 0..MaxDiffusionX }

\* calls with a warm-start reference, a temperature and a batch size
WarmStartCalls ==
    { [self |-> Construct(v, m, FALSE, [x_min |-> None, x_max |-> None], TRUE),
       args |-> [DefaultArgs EXCEPT !.solver = s, !.warm_start_reference = ref,
                                    !.warm_start_forward_level = lv, !.temperature = tp,
                                    !.n_samples = ns, !.preserve_history = TRUE]] :
      v \in Variants, m \in FixMasks, s \in {"ddim", "ode_dpmsolver++_2M"},
      ref \in {None, Reference}, lv \in {R(0), Frac(3, 4), R(1)}, tp \in {R(1), R(2)}, ns \in 1..2 }

\* calls of samplers with a bound on one side only, in both prediction modes
ClippingCalls ==
    { [self |-> Construct(v, <<R(0), R(0)>>, FALSE, b, pn),
       args |-> [DefaultArgs EXCEPT !.solver = s, !.temperature = tp]] :
      v \in Variants, b \in OneSidedBounds, pn \in BOOLEAN,
      s \in {"ddpm", "ode_dpmsolver++_1"}, tp \in {R(1), R(2)} }

Calls == SolverCalls \cup ConfigurationCalls \cup GuidanceCalls \cup WarmStartCalls
         \cup ClippingCalls

\* ------------------------------------------------------------------------
\* State of one sampling call
\* ------------------------------------------------------------------------
VARIABLES
    self,     \* the sampler object
    args,     \* the arguments of the call
    pc,       \* "call", "prepare", "loop", "post", "done", "raised"
    err,      \* the exception raised ("" when none)
    xt,       \* the sample state
    log,      \* the log dictionary
    loc,      \* the other locals of sample()
    buffer,   \* the step memory of the multistep solvers
    calls,    \* how often each collaborator has been called
    step,     \* what the last loop iteration read and computed
    post,     \* what post-processing evaluated
    ret       \* the sample returned

vars == <<self, args, pc, err, xt, log, loc, buffer, calls, step, post, ret>>

\* np.empty: a slot not yet written
Uninit == <<>>

\* prior.shape of the batch
PriorShape(a) == <<a.n_samples, Len(a.prior)>>

\* np.empty((n_samples, sample_steps + 1, *prior.shape))
HistoryShape(a) == <<a.n_samples, a.sample_steps + 1>> \o PriorShape(a)

NoStep ==
    [i |-> 0, t |-> None, xt_in |-> None, pred_cfg |-> None, pred |-> None, logp |-> None,
     eps_theta |-> None, x_theta |-> None, form |-> "", randn |-> FALSE,
     xt_solver |-> None, buffer_in |-> None, predictor |-> <<>>, gradients |-> <<>>,
     offset |-> 0]

Init ==
    /\ \E c \in Calls : self = c.self /\ args = c.args
    /\ pc = "call"
    /\ err = ""
    /\ xt = None
    /\ log = [keys |-> {}, sample_history |-> None, history_shape |-> None, log_p |-> None,
              written |-> <<>>]
    /\ loc = [diffusion_steps |-> 0, t_diffusion |-> None, warm_start |-> FALSE,
              forward_at |-> None, condition_vec_cfg |-> None, condition_vec_cg |-> None,
              sample_step_schedule |-> None, alphas |-> None, sigmas |-> None,
              hs |-> None, stds |-> None, remaining |-> <<>>]
    /\ buffer = <<>>
    /\ calls = [predictor |-> 0, gradients |-> 0, logp |-> 0, encoder |-> 0, solver |-> 0,
                randn |-> 0, iterations |-> 0]
    /\ step = NoStep
    /\ post = [logp_xt |-> None, logp_t |-> None, clipped |-> FALSE]
    /\ ret = None

\* the warm start taken at level 0 as well
UseWarmStart_FromZero(a) ==
    /\ a.warm_start_reference # None
    /\ RLe(R(0), a.warm_start_forward_level)
    /\ RLt(a.warm_start_forward_level, R(1))

\* isinstance(warm_start_reference, torch.Tensor) and 0 < warm_start_forward_level < 1
UseWarmStart(a) ==
    /\ a.warm_start_reference # None
    /\ RLt(R(0), a.warm_start_forward_level)
    /\ RLt(a.warm_start_forward_level, R(1))

\* Initialization of the discrete sampler after the solver assertion:
\* the local diffusion_steps and the state xt before the fix mask
DiscreteStart(sf, a, noise) ==
    IF UseWarmStart(a)
    THEN LET diffusion_steps == PyInt(RMul(a.warm_start_forward_level, R(sf.diffusion_steps)))
             fwd_alpha == At(sf.alpha, diffusion_steps)
             fwd_sigma == At(sf.sigma, diffusion_steps)
         IN  [diffusion_steps |-> diffusion_steps, t_diffusion |-> None, warm_start |-> TRUE,
              forward_at |-> R(diffusion_steps),
              xt |-> TAdd(TScale(fwd_alpha, a.warm_start_reference), TScale(fwd_sigma, noise))]
    ELSE [diffusion_steps |-> sf.diffusion_steps, t_diffusion |-> None, warm_start |-> FALSE,
          forward_at |-> None, xt |-> TScale(a.temperature, noise)]

\* warm_start_forward_level = t_diffusion[0] + level * (t_diffusion[1] - t_diffusion[0])
WarmStartLevel(sf, a) ==
    RAdd(sf.t_diffusion[1],
         RMul(a.warm_start_forward_level, RSub(sf.t_diffusion[2], sf.t_diffusion[1])))

\* the time handed to the forward function: t_diffusion[1] * warm_start_forward_level
WarmStartTime(sf, a) == RMul(sf.t_diffusion[2], WarmStartLevel(sf, a))

\* Initialization of the continuous sampler after the solver assertion
ContinuousStart(sf, a, noise) ==
    IF UseWarmStart(a)
    THEN LET level == WarmStartLevel(sf, a)
             at == WarmStartTime(sf, a)
             fwd == NoiseScheduleForward(at)
         IN  [diffusion_steps |-> 0, t_diffusion |-> <<sf.t_diffusion[1], level>>,
              warm_start |-> TRUE, forward_at |-> at,
              xt |-> TAdd(TScale(fwd.alpha, a.warm_start_reference), TScale(fwd.sigma, noise))]
    ELSE [diffusion_steps |-> 0, t_diffusion |-> sf.t_diffusion, warm_start |-> FALSE,
          forward_at |-> None, xt |-> TScale(a.temperature, noise)]

\* the history write one slot too far
WriteHistory_Shifted(lg, offset, value) ==
    [lg EXCEPT !.sample_history =
        Tup([j \in DOMAIN @ |-> IF j = offset + 2 THEN value ELSE @[j]])]

\* log["sample_history"][:, offset] = xt
\* (written: the offsets written so far, in order)
WriteHistory(lg, offset, value) ==
    [lg EXCEPT !.sample_history = Tup([@ EXCEPT ![offset + 1] = value]),
               !.written = Append(@, offset)]

\* sample(): the solver assertion, the log, the initial state, the fix mask
\* and entry 0 of the history
Begin ==
    /\ pc = "call"
    /\ IF args.solver \notin SUPPORTED_SOLVERS
       THEN /\ pc' = "raised"
            /\ err' = "AssertionError"
            /\ UNCHANGED <<xt, log, loc, calls>>
       ELSE \E noise \in NoiseDraws :
               LET st == IF self.variant = "discrete"
                         THEN DiscreteStart(self, args, noise)
                         ELSE ContinuousStart(self, args, noise)
                   x0 == ApplyFixMask(st.xt, args.prior, self.fix_mask)
                   lg == [keys |-> {"sample_history"},
                          sample_history |-> IF args.preserve_history
                                             THEN Tup([j \in 1..(args.sample_steps + 1) |-> Uninit])
                                             ELSE None,
                          history_shape |-> IF args.preserve_history
                                            THEN HistoryShape(args) ELSE None,
                          log_p |-> None, written |-> <<>>]
               IN  /\ xt' = x0
                   /\ log' = IF args.preserve_history THEN WriteHistory(lg, 0, x0) ELSE lg
                   /\ loc' = [loc EXCEPT !.diffusion_steps = st.diffusion_steps,
                                         !.t_diffusion = st.t_diffusion,
                                         !.warm_start = st.warm_start,
                                         !.forward_at = st.forward_at]
                   /\ calls' = [calls EXCEPT !.randn = @ + 1]
                   /\ pc' = "prepare"
                   /\ err' = ""
    /\ UNCHANGED <<self, args, buffer, step, post, ret>>

\* every step-schedule identifier taken as usable
ScheduleKnown_Any(a) == TRUE

\* the identifier is a key of SUPPORTED_SAMPLING_STEP_SCHEDULE or a callable
\* (neither ValueError of the schedule construction is raised)
ScheduleKnown(a) == a.sample_step_schedule \in {"registered", "callable"}

\* the sampling step schedule of the call: a registry entry or the callable,
\* applied to the (possibly shrunk) diffusion range and sample_steps
StepSchedule(sf, a, lc) ==
    IF sf.variant = "discrete"
    THEN IF a.sample_step_schedule = "registered"
         THEN UniformStepSchedule(lc.diffusion_steps, a.sample_steps)
         ELSE CallableStepSchedule(lc.diffusion_steps, a.sample_steps)
    ELSE IF a.sample_step_schedule = "registered"
         THEN UniformContinuousStepSchedule(lc.t_diffusion, a.sample_steps)
         ELSE CallableContinuousStepSchedule(lc.t_diffusion, a.sample_steps)

\* alphas, sigmas, logSNRs at the points of the schedule
ScheduleAlphas(sf, sched) ==
    Tup([j \in DOMAIN sched |-> IF sf.variant = "discrete" THEN At(sf.alpha, sched[j])
                                ELSE NoiseScheduleForward(sched[j]).alpha])
ScheduleSigmas(sf, sched) ==
    Tup([j \in DOMAIN sched |-> IF sf.variant = "discrete" THEN At(sf.sigma, sched[j])
                                ELSE NoiseScheduleForward(sched[j]).sigma])
ScheduleLogSNRs(sf, sched) ==
    Tup([j \in DOMAIN sched |->
            IF sf.variant = "discrete" THEN At(sf.logSNR, sched[j])
            ELSE Log(RDiv(NoiseScheduleForward(sched[j]).alpha,
                          NoiseScheduleForward(sched[j]).sigma))])

\* hs = zeros ; hs[1:] = logSNRs[:-1] - logSNRs[1:]
StepSizes(logSNRs) ==
    Tup([j \in DOMAIN logSNRs |-> IF j = 1 THEN R(0) ELSE RSub(logSNRs[j - 1], logSNRs[j])])

\* stds = zeros ; stds[1:] = sigmas[:-1] / sigmas[1:] * sqrt(1 - (alphas[1:] / alphas[:-1]) ** 2)
AncestralStds(alphas, sigmas) ==
    Tup([j \in DOMAIN alphas |->
            IF j = 1 THEN R(0)
            ELSE RMul(RDiv(sigmas[j - 1], sigmas[j]),
                      Sqrt(RSub(R(1), RSq(RDiv(alphas[j], alphas[j - 1])))))])

\* the loop steps with the repetitions made of step sample_steps
LoopSteps_RepeatFirst(a) ==
    Tup([j \in 1..a.diffusion_x_sampling_steps |-> a.sample_steps])
        \o Tup([j \in 1..a.sample_steps |-> j])

\* the loop steps without the repetitions of step 1
LoopSteps_NoRepeat(a) == Tup([j \in 1..a.sample_steps |-> j])

\* [1] * diffusion_x_sampling_steps + list(range(1, sample_steps + 1))
LoopSteps(a) ==
    Tup([j \in 1..a.diffusion_x_sampling_steps |-> 1]) \o Tup([j \in 1..a.sample_steps |-> j])

\* reversed(s)
Reversed(s) == Tup([j \in 1..Len(s) |-> s[Len(s) - j + 1]])

\* the condition encoder left out
EncoderCalls_Never(a) == 0

\* the calls of model["condition"] sample() makes: one if condition_cfg is not None
EncoderCalls(a) == IF a.condition_cfg # None THEN 1 ELSE 0

\* sample(): the condition encoder, the step schedule and the arrays derived
\* from it, the empty step memory and the list of loop steps
Prepare ==
    /\ pc = "prepare"
    /\ LET vec == IF EncoderCalls(args) = 1
                  THEN ConditionEncoder(args.condition_cfg, args.mask_cfg) ELSE None
       IN  IF ScheduleKnown(args)
           THEN LET sched == StepSchedule(self, args, loc)
                    alphas == Stored(ScheduleAlphas(self, sched))
                    sigmas == Stored(ScheduleSigmas(self, sched))
                IN  /\ loc' = [loc EXCEPT !.condition_vec_cfg = vec,
                                          !.condition_vec_cg = args.condition_cg,
                                          !.sample_step_schedule = sched,
                                          !.alphas = alphas, !.sigmas = sigmas,
                                          !.hs = Stored(StepSizes(ScheduleLogSNRs(self, sched))),
                                          !.stds = Stored(AncestralStds(alphas, sigmas)),
                                          !.remaining = Reversed(LoopSteps(args))]
                    /\ pc' = "loop"
                    /\ err' = ""
           ELSE /\ loc' = [loc EXCEPT !.condition_vec_cfg = vec,
                                      !.condition_vec_cg = args.condition_cg]
                /\ pc' = "raised"
                /\ err' = "ValueError"
    /\ calls' = [calls EXCEPT !.encoder = @ + EncoderCalls(args)]
    /\ buffer' = <<>>
    /\ UNCHANGED <<self, args, xt, log, step, post, ret>>

\* the time tensor of an iteration: torch.full((n_samples,), sample_step_schedule[i])
StepTime(sf, sched, i) == IF sf.variant = "discrete" THEN R(At(sched, i)) ELSE At(sched, i)

\* the history offset of step i one too low
HistoryOffset_OneLow(sample_steps, i) == sample_steps - i

\* the offset of log["sample_history"] that step i writes: sample_steps - i + 1
HistoryOffset(sample_steps, i) == sample_steps - i + 1

\* the body of one loop iteration after guided sampling returned gs:
\* clipping, conversion, solver update, fix mask
IterationBody(sf, a, lc, x, buf, i, gs, noise) ==
    LET alpha == At(lc.alphas, i)
        sigma == At(lc.sigmas, i)
        pred == clip_prediction(sf, gs.pred, x, alpha, sigma)
        eps_theta == IF sf.predict_noise THEN pred
                     ELSE Stored(xtheta_to_epstheta(x, alpha, sigma, pred))
        x_theta == IF ~sf.predict_noise THEN pred
                   ELSE Stored(epstheta_to_xtheta(x, alpha, sigma, pred))
        upd == SolverStep(a.solver, i, a.sample_steps, x, lc.alphas, lc.sigmas, lc.hs,
                          lc.stds, eps_theta, x_theta, buf, noise)
    IN  [xt |-> ApplyFixMask(upd.xt, a.prior, sf.fix_mask), xt_solver |-> upd.xt,
         buffer |-> upd.buffer, randn |-> upd.randn, form |-> upd.form,
         eps_theta |-> eps_theta, x_theta |-> x_theta,
         offset |-> HistoryOffset(a.sample_steps, i)]

\* sample(): one iteration of the denoising loop
Iterate ==
    /\ pc = "loop"
    /\ loc.remaining # <<>>
    /\ \E i \in {Head(loc.remaining)} :
       \E t \in {StepTime(self, loc.sample_step_schedule, i)} :
       \E gs \in {guided_sampling(self, xt, t, At(loc.alphas, i), At(loc.sigmas, i),
                                  loc.condition_vec_cfg, args.w_cfg,
                                  loc.condition_vec_cg, args.w_cg)} :
          IF gs.raised # ""
          THEN /\ pc' = "raised"
               /\ err' = gs.raised
               /\ UNCHANGED <<xt, log, loc, buffer, calls, step>>
          ELSE \E noise \in NoiseDraws :
               \E out \in {IterationBody(self, args, loc, xt, buffer, i, gs, noise)} :
                  /\ xt' = out.xt
                  /\ buffer' = out.buffer
                  /\ log' = IF args.preserve_history
                            THEN WriteHistory(log, out.offset, out.xt) ELSE log
                  /\ loc' = [loc EXCEPT !.remaining = Tail(@)]
                  /\ calls' = [calls EXCEPT
                                 !.predictor = @ + Len(gs.predictor),
                                 !.gradients = @ + Len(gs.gradients),
                                 !.solver = @ + 1,
                                 !.randn = @ + (IF out.randn THEN 1 ELSE 0),
                                 !.iterations = @ + 1]
                  /\ step' = [i |-> i, t |-> t, xt_in |-> xt, pred_cfg |-> gs.pred_cfg,
                              pred |-> gs.pred, logp |-> gs.logp,
                              eps_theta |-> out.eps_theta, x_theta |-> out.x_theta,
                              form |-> out.form, randn |-> out.randn,
                              xt_solver |-> out.xt_solver, buffer_in |-> buffer,
                              predictor |-> gs.predictor, gradients |-> gs.gradients,
                              offset |-> out.offset]
                  /\ pc' = IF Len(loc.remaining) = 1 THEN "post" ELSE "loop"
                  /\ err' = ""
    /\ UNCHANGED <<self, args, post, ret>>

\* the condition under which sample() evaluates the final log-probability
ReportsLogp(sf, a) ==
    IF sf.variant = "discrete" THEN sf.classifier
    ELSE sf.classifier /\ a.w_cg # R(0)

\* the final log-probability taken on the clipped state
FinalLogpState_Clipped(sf, x) == IF clip_pred(sf) THEN TClip(x, sf.x_min, sf.x_max) ELSE x

\* the state handed to classifier.logp: xt as the loop left it
FinalLogpState(sf, x) == x

\* sample(): the final log-probability, the clip to the data range, the return
PostProcess ==
    /\ pc = "post"
    /\ LET reports == ReportsLogp(self, args)
           out == IF clip_pred(self) THEN TClip(xt, self.x_min, self.x_max) ELSE xt
       IN  /\ log' = IF reports
                     THEN [log EXCEPT !.keys = @ \cup {"log_p"},
                                      !.log_p = <<ClassifierLogp(FinalLogpState(self, xt), R(0),
                                                                 loc.condition_vec_cg)>>]
                     ELSE log
           /\ post' = [logp_xt |-> IF reports THEN FinalLogpState(self, xt) ELSE None,
                       logp_t |-> IF reports THEN R(0) ELSE None,
                       clipped |-> clip_pred(self)]
           /\ calls' = [calls EXCEPT !.logp = @ + (IF reports THEN 1 ELSE 0)]
           /\ xt' = out
           /\ ret' = out
    /\ pc' = "done"
    /\ UNCHANGED <<self, args, err, loc, buffer, step>>

Next == Begin \/ Prepare \/ Iterate \/ PostProcess

Spec == Init /\ [][Next]_vars

\* ------------------------------------------------------------------------
\* Properties of the sampling call
\* ------------------------------------------------------------------------
\* x equals the prior at every coordinate the fix mask marks
MaskedAtPrior(x) ==
    \A c \in DOMAIN self.fix_mask : self.fix_mask[c] = R(1) => x[c] = args.prior[c]

\* the final data-range clip would change x
ClipChanges(x) == clip_pred(self) /\ TClip(x, self.x_min, self.x_max) # x

\* the call is configured so that no configuration error is raised
WellConfigured ==
    /\ args.solver \in SUPPORTED_SOLVERS
    /\ args.sample_step_schedule \in {"registered", "callable"}
    /\ (args.w_cfg \in {R(0), R(1)} \/ args.condition_cfg # None)

\* C1: in both samplers, for a 0/1 fix mask, the state xt equals the prior at
\* every masked coordinate right after initialization and after every loop
\* iteration, for every solver, every sample_steps and every number of
\* diffusion-x repetitions.
C1_FixMaskInvariant == pc \in {"prepare", "loop", "post"} => MaskedAtPrior(xt)

\* C1 witness: the last iteration of a call with a masked coordinate has run,
\* after a repetition of step 1, and its solver update had moved the masked
\* coordinate away from the prior.
C1_Witness ==
    /\ pc = "post"
    /\ self.fix_mask[1] = R(1)
    /\ args.diffusion_x_sampling_steps >= 1
    /\ calls.iterations = args.sample_steps + args.diffusion_x_sampling_steps
    /\ step.xt_solver[1] # args.prior[1]

\* C2: the sample returned by sample() equals the prior at every masked
\* coordinate, also when x_min/x_max are configured and the prior lies outside
\* the data range at a masked coordinate.
C2_ReturnKeepsPrior == pc = "done" => MaskedAtPrior(ret)

\* the number of steps a call has left at most
StepsLeft ==
    CASE pc = "call" -> args.sample_steps + args.diffusion_x_sampling_steps + 3
      [] pc = "prepare" -> args.sample_steps + args.diffusion_x_sampling_steps + 2
      [] pc = "loop" -> Len(loc.remaining) + 1
      [] pc = "post" -> 1
      [] OTHER -> 0

C4_StepCountAsserted ==
    (/\ args.solver \in SUPPORTED_SOLVERS
     /\ args.sample_step_schedule \in {"registered", "callable"}
     /\ \/ args.sample_steps <= 1
        \/ self.variant = "discrete" /\ args.sample_steps > self.diffusion_steps)
    => /\ calls.iterations = 0
       /\ pc \notin {"post", "done"}
       /\ (pc = "raised" => err = "AssertionError")

\* C5: a call with an unsupported solver name, or with a step-schedule
\* identifier that is an unregistered string or neither string nor callable,
\* raises before the first loop iteration: no predictor evaluation, no
\* classifier evaluation, no solver update.
C5_FailsBeforeLoop ==
    (args.solver \notin SUPPORTED_SOLVERS \/ args.sample_step_schedule \in {"unregistered", "number"})
    => /\ pc \in {"call", "prepare", "raised"}
       /\ (pc = "raised" =>
             err = IF args.solver \notin SUPPORTED_SOLVERS THEN "AssertionError" ELSE "ValueError")
       /\ calls.predictor = 0 /\ calls.gradients = 0 /\ calls.logp = 0
       /\ calls.solver = 0 /\ calls.iterations = 0
       /\ step = NoStep

\* C5 witness: a call with a supported solver and a schedule identifier that
\* is neither string nor callable has raised ValueError, after the condition
\* encoder ran.
C5_Witness ==
    /\ pc = "raised"
    /\ err = "ValueError"
    /\ args.solver \in SUPPORTED_SOLVERS
    /\ args.sample_step_schedule = "number"
    /\ calls.encoder = 1

\* C6: log['log_p'] is computed and reported if and only if a classifier is
\* attached and w_cg is nonzero, identically for the discrete and the
\* continuous sampler.
C6_LogpIffGuided ==
    pc = "done" =>
        /\ ("log_p" \in log.keys) <=> (self.classifier /\ args.w_cg # R(0))
        /\ (calls.logp = 1) <=> (self.classifier /\ args.w_cg # R(0))

\* C7 (as stated): with preserve_history, entry 0 of the history is the
\* initial state after the fix mask, and the entry at offset sample_steps is
\* the sample returned, for every x_min/x_max and every number of diffusion-x
\* repetitions.
C7_HistoryEndsAtReturn ==
    [][args.preserve_history =>
         /\ (pc = "call" /\ pc' = "prepare" => log'.sample_history[1] = xt')
         /\ (pc \notin {"call", "raised"} =>
                log'.sample_history[1] = log.sample_history[1])
         /\ (pc' = "done" => log'.sample_history[args.sample_steps + 1] = ret')]_vars

\* C7 (amended): with preserve_history, entry 0 of the history is the initial
\* state after the fix mask, and the entry at offset sample_steps is the state
\* after the last loop iteration: the sample returned is that entry clipped to
\* [x_min, x_max] when data bounds are configured, and that entry otherwise.
C7_HistoryEndsBeforeClip ==
    [][args.preserve_history =>
         /\ (pc = "call" /\ pc' = "prepare" => log'.sample_history[1] = xt')
         /\ (pc \notin {"call", "raised"} =>
                log'.sample_history[1] = log.sample_history[1])
         /\ (pc' = "post" => log'.sample_history[args.sample_steps + 1] = xt')
         /\ (pc' = "done" =>
                /\ log'.sample_history = log.sample_history
                /\ ret' = IF clip_pred(self)
                          THEN TClip(log.sample_history[args.sample_steps + 1],
                                     self.x_min, self.x_max)
                          ELSE log.sample_history[args.sample_steps + 1])]_vars

\* C7 witness: a call with history, data bounds and a repetition of step 1
\* has returned a sample that the final clip changed, so that the last history
\* entry differs from it; entry 0 differs from the last entry.
C7_Witness ==
    /\ pc = "done"
    /\ args.preserve_history
    /\ args.diffusion_x_sampling_steps >= 1
    /\ clip_pred(self)
    /\ log.sample_history[args.sample_steps + 1] # ret
    /\ log.sample_history[1] # log.sample_history[args.sample_steps + 1]

\* C8: with preserve_history and a prior of shape (n_samples, *x_shape) the
\* preallocated history has shape (n_samples, sample_steps + 1, *x_shape).
C8_HistoryShape ==
    (args.preserve_history /\ pc \notin {"call", "raised"}) =>
        log.history_shape = <<args.n_samples, args.sample_steps + 1>> \o Tail(PriorShape(args))

\* C9: with no classifier, guided sampling with w_cfg = 1 returns exactly the
\* predictor's output on (xt, t, condition), with w_cfg = 0 exactly its output
\* on (xt, t, None); in both cases the predictor is evaluated once in the
\* iteration, on that branch only.
C9_GuidanceShortcuts ==
    (step.i >= 1 /\ ~self.classifier /\ args.w_cfg \in {R(0), R(1)}) =>
        LET cond == IF args.w_cfg = R(1) THEN loc.condition_vec_cfg ELSE None
        IN  /\ step.pred = Predictor(step.xt_in, step.t, cond)
            /\ step.predictor = <<[xt |-> step.xt_in, t |-> step.t, conditions |-> <<cond>>]>>
            /\ calls.predictor = calls.iterations

\* C9 witness: the second iteration of a call with no classifier, w_cfg = 1
\* and a condition has run; the conditional and the unconditional predictions
\* on its inputs differ.
C9_Witness ==
    /\ step.i >= 1
    /\ ~self.classifier
    /\ args.w_cfg = R(1)
    /\ loc.condition_vec_cfg # None
    /\ calls.iterations = 2
    /\ step.pred # Predictor(step.xt_in, step.t, None)

\* the first-order update of ode_dpmsolver++_1 on the inputs of the last step
C10_FirstOrder ==
    SolverStep("ode_dpmsolver++_1", step.i, args.sample_steps, step.xt_in, loc.alphas,
               loc.sigmas, loc.hs, loc.stds, step.eps_theta, step.x_theta, step.buffer_in,
               TZeros(step.xt_in)).xt

\* D = (1 + 0.5/r) * x_theta_last - (0.5/r) * x_theta_prev, r = h_{i+1} / h_i,
\* on the inputs of the last step
C10_Extrapolation ==
    LET r == RDiv(At(loc.hs, step.i + 1), At(loc.hs, step.i))
        last == step.x_theta
        prev == step.buffer_in[Len(step.buffer_in)]
    IN  Stored(TSub(TScale(RAdd(R(1), RDiv(Frac(1, 2), r)), last),
                    TScale(RDiv(Frac(1, 2), r), prev)))

\* C10: ode_dpmsolver++_2M performs on the first update step of a call
\* (i = sample_steps, one entry in the step memory) exactly the update of
\* ode_dpmsolver++_1 on the same inputs, and on every step with
\* i < sample_steps uses D = (1 + 0.5/r) x_theta_last - (0.5/r) x_theta_prev,
\* r = h_{i+1} / h_i, in place of x_theta.
C10_MultistepOde ==
    (args.solver = "ode_dpmsolver++_2M" /\ step.i >= 1) =>
        /\ (calls.iterations = 1 => step.i = args.sample_steps /\ Len(buffer) = 1)
        /\ (step.i = args.sample_steps => step.xt_solver = C10_FirstOrder)
        /\ (step.i < args.sample_steps =>
               /\ Len(step.buffer_in) >= 1
               /\ step.xt_solver =
                     Stored(OdeDataForm(step.i, step.xt_in, loc.alphas, loc.sigmas, loc.hs,
                                        C10_Extrapolation)))

\* C10 witness: ode_dpmsolver++_2M has run a step with i < sample_steps whose
\* result differs from the first-order update on the same inputs.
C10_Witness ==
    /\ args.solver = "ode_dpmsolver++_2M"
    /\ step.i >= 1
    /\ step.i < args.sample_steps
    /\ step.form = "D"
    /\ step.xt_solver # C10_FirstOrder

\* the solvers that draw no random value
DeterministicSolvers ==
    {"ddim", "ode_dpmsolver_1", "ode_dpmsolver++_1", "ode_dpmsolver++_2M"}

\* what the next loop iteration computes from the current state when
\* torch.randn_like returns noise
NextIteration(noise) ==
    LET i == Head(loc.remaining)
        gs == guided_sampling(self, xt, StepTime(self, loc.sample_step_schedule, i),
                              At(loc.alphas, i), At(loc.sigmas, i),
                              loc.condition_vec_cfg, args.w_cfg, loc.condition_vec_cg, args.w_cg)
    IN  IF gs.raised # "" THEN [raised |-> gs.raised]
        ELSE IterationBody(self, args, loc, xt, buffer, i, gs, noise)

\* C11: for ddim, ode_dpmsolver_1, ode_dpmsolver++_1 and ode_dpmsolver++_2M no
\* random value is drawn inside the denoising loop: the only draw of a call
\* is the one of the initial state, no step has drawn, and the result of the
\* next iteration is the same whatever the random source would return, so two
\* runs from the same initial state pass through the same states.
C11_DeterministicSolvers ==
    args.solver \in DeterministicSolvers =>
        /\ (pc \in {"prepare", "loop", "post", "done"} => calls.randn = 1)
        /\ ~step.randn
        /\ (pc = "loop" =>
               \A n1, n2 \in NoiseDraws : NextIteration(n1) = NextIteration(n2))

\* C11 witness: a call with ode_dpmsolver++_2M has returned after three
\* iterations, the last one an extrapolation step, with the single draw of
\* its initial state.
C11_Witness ==
    /\ pc = "done"
    /\ args.solver = "ode_dpmsolver++_2M"
    /\ calls.iterations >= 3
    /\ step.form = "D"
    /\ calls.randn = 1

\* ------------------------------------------------------------------------
\* The two conversions applied one after the other, at fixed (x, alpha, sigma)
\* ------------------------------------------------------------------------
ConversionStates == {<<R(3), R(-1)>>, <<Frac(1, 2), R(0)>>, <<R(-2), Frac(5, 4)>>}
ConversionScales == {R(0), Frac(1, 4), Frac(3, 4), R(1), Frac(5, 3)}
ConversionPredictions == {<<R(0), R(1)>>, <<Frac(-7, 3), Frac(1, 2)>>, <<R(4), Frac(-1, 8)>>}

\* a state x, the scales alpha and sigma, and a prediction in one of the forms
ConversionInit ==
    /\ self = None /\ args = None /\ err = "" /\ buffer = <<>> /\ calls = None
    /\ log = None /\ post = None /\ ret = None
    /\ pc = "convert"
    /\ xt \in ConversionStates
    /\ \E alpha \in ConversionScales, sigma \in ConversionScales :
          loc = [alpha |-> alpha, sigma |-> sigma]
    /\ \E pred \in ConversionPredictions : step = [pred |-> pred, form |-> "", converted |-> None]

\* x_theta = epstheta_to_xtheta(xt, alpha, sigma, pred)
ConvertNoise ==
    /\ pc = "convert"
    /\ step' = [step EXCEPT !.form = "eps_theta",
                            !.converted = epstheta_to_xtheta(xt, loc.alpha, loc.sigma, step.pred)]
    /\ pc' = "convert_back"
    /\ UNCHANGED <<self, args, err, xt, log, loc, buffer, calls, post, ret>>

\* eps_theta = xtheta_to_epstheta(xt, alpha, sigma, pred)
ConvertData ==
    /\ pc = "convert"
    /\ step' = [step EXCEPT !.form = "x_theta",
                            !.converted = xtheta_to_epstheta(xt, loc.alpha, loc.sigma, step.pred)]
    /\ pc' = "convert_back"
    /\ UNCHANGED <<self, args, err, xt, log, loc, buffer, calls, post, ret>>

\* the other conversion applied to the converted prediction
ConvertBack ==
    /\ pc = "convert_back"
    /\ ret' = IF step.form = "eps_theta"
              THEN xtheta_to_epstheta(xt, loc.alpha, loc.sigma, step.converted)
              ELSE epstheta_to_xtheta(xt, loc.alpha, loc.sigma, step.converted)
    /\ pc' = "converted"
    /\ UNCHANGED <<self, args, err, xt, log, loc, buffer, calls, step, post>>

ConversionNext == ConvertNoise \/ ConvertData \/ ConvertBack

ConversionSpec == ConversionInit /\ [][ConversionNext]_vars

\* C12: epstheta_to_xtheta and xtheta_to_epstheta are inverses at fixed
\* (x, alpha, sigma) with alpha # 0 and sigma # 0: converting a prediction to
\* the other form and back gives the prediction, from either form.
C12_ConversionsInverse ==
    (pc = "converted" /\ loc.alpha # R(0) /\ loc.sigma # R(0)) => ret = step.pred

\* C12 witness: a noise prediction has been converted to a different data
\* prediction and back, with alpha and sigma different and neither 0 nor 1.
C12_Witness ==
    /\ pc = "converted"
    /\ step.form = "eps_theta"
    /\ loc.alpha \notin {R(0), R(1), loc.sigma}
    /\ loc.sigma \notin {R(0), R(1)}
    /\ step.converted # step.pred
    /\ ret = step.pred

\* C13: within one call the condition encoder is invoked exactly once when
\* condition_cfg is given and never when it is None; the invocation precedes
\* the first predictor evaluation, and no loop iteration invokes it.
C13_EncoderOnce ==
    /\ [](pc \in {"call", "prepare"} => calls.encoder = 0 /\ calls.predictor = 0)
    /\ [](pc \in {"loop", "post", "done"} \/ calls.predictor >= 1 =>
            calls.encoder = IF args.condition_cfg # None THEN 1 ELSE 0)
    /\ [][pc = "loop" => calls'.encoder = calls.encoder]_vars

\* C13 witness: a call with a condition has returned after two predictor
\* evaluations on the encoded condition and one encoder invocation.
C13_Witness ==
    /\ pc = "done"
    /\ args.condition_cfg # None
    /\ calls.encoder = 1
    /\ calls.predictor = 2
    /\ step.predictor[1].conditions[1] = ConditionEncoder(args.condition_cfg, args.mask_cfg)

\* the initial state of a warm start for a draw of torch.randn_like: the
\* reference forward-diffused with alpha and sigma, fix mask applied
WarmInitialState(alpha, sigma, noise) ==
    ApplyFixMask(TAdd(TScale(alpha, args.warm_start_reference), TScale(sigma, noise)),
                 args.prior, self.fix_mask)

\* the step schedule of the call over a diffusion range
ScheduleOver(range) ==
    IF self.variant = "discrete"
    THEN IF args.sample_step_schedule = "registered"
         THEN UniformStepSchedule(range, args.sample_steps)
         ELSE CallableStepSchedule(range, args.sample_steps)
    ELSE IF args.sample_step_schedule = "registered"
         THEN UniformContinuousStepSchedule(range, args.sample_steps)
         ELSE CallableContinuousStepSchedule(range, args.sample_steps)

\* C14: warm start is used if and only if warm_start_reference is a tensor
\* and 0 < warm_start_forward_level < 1. Then the initial state is the
\* reference forward-diffused, without the temperature, and the step schedule
\* is built over the shrunk range (discrete: floor(level * diffusion_steps)
\* steps, an index inside the ladder of diffusion_steps entries). Otherwise,
\* also for level 0 and level 1, the initial state is noise scaled by the
\* temperature and the full range is used.
C14_WarmStart ==
    LET level == args.warm_start_forward_level
        warm == /\ args.warm_start_reference # None
                /\ level[1] > 0
                /\ level[1] < level[2]
        shrunk == Floor(RMul(level, R(self.diffusion_steps)))
        upper == RAdd(self.t_diffusion[1],
                      RMul(level, RSub(self.t_diffusion[2], self.t_diffusion[1])))
        fwd == NoiseScheduleForward(RMul(self.t_diffusion[2], upper))
    IN  /\ (pc = "prepare" =>
              /\ loc.warm_start = warm
              /\ (warm /\ self.variant = "discrete" =>
                     /\ shrunk \in 0..(self.diffusion_steps - 1)
                     /\ shrunk + 1 \in DOMAIN self.alpha
                     /\ loc.diffusion_steps = shrunk
                     /\ \E noise \in NoiseDraws :
                           xt = WarmInitialState(self.alpha[shrunk + 1],
                                                 self.sigma[shrunk + 1], noise))
              /\ (warm /\ self.variant = "continuous" =>
                     /\ loc.t_diffusion = <<self.t_diffusion[1], upper>>
                     /\ \E noise \in NoiseDraws :
                           xt = WarmInitialState(fwd.alpha, fwd.sigma, noise))
              /\ (~warm =>
                     /\ loc.diffusion_steps = self.diffusion_steps
                     /\ loc.t_diffusion = IF self.variant = "discrete" THEN None
                                          ELSE self.t_diffusion
                     /\ \E noise \in NoiseDraws :
                           xt = ApplyFixMask(TScale(args.temperature, noise),
                                             args.prior, self.fix_mask)))
        /\ (pc = "loop" =>
              loc.sample_step_schedule =
                 IF self.variant = "discrete"
                 THEN ScheduleOver(IF warm THEN shrunk ELSE self.diffusion_steps)
                 ELSE ScheduleOver(IF warm THEN <<self.t_diffusion[1], upper>>
                                   ELSE self.t_diffusion))

\* C14 witness: a discrete call with a reference, level 3/4 and temperature 2
\* has built its schedule over the 6 steps of the shrunk range.
C14_Witness ==
    /\ pc = "loop"
    /\ self.variant = "discrete"
    /\ args.warm_start_reference # None
    /\ args.warm_start_forward_level = Frac(3, 4)
    /\ args.temperature = R(2)
    /\ loc.warm_start
    /\ loc.diffusion_steps = 6
    /\ At(loc.sample_step_schedule, args.sample_steps) = 5

\* ------------------------------------------------------------------------
\* Construction of a sampler: __init__ of the two classes
\* ------------------------------------------------------------------------
\* discretization: a registered name, a callable, an unregistered string, a
\* value of another type
DiscretizationKinds == {"uniform", "callable", "unregistered", "number"}

\* noise_schedule: two registered names, a dict of callables, an unregistered
\* string, a value of another type
NoiseScheduleKinds == {"cosine", "linear", "dict", "unregistered", "number"}

\* every noise schedule taken as usable
NoiseScheduleKnown_Any(noise_schedule) == TRUE

\* noise_schedule is a key of SUPPORTED_NOISE_SCHEDULES or a dict
NoiseScheduleKnown(noise_schedule) == noise_schedule \in {"cosine", "linear", "dict"}

\* discretization is a key of SUPPORTED_DISCRETIZATIONS or a callable
DiscretizationKnown(discretization) == discretization \in {"uniform", "callable"}

\* the arguments of a construction
Constructions ==
    { [variant |-> v, fix_mask |-> m, classifier |-> c, epsilon |-> Epsilon,
       x_max |-> b.x_max, x_min |-> b.x_min, predict_noise |-> pn,
       diffusion_steps |-> IF v = "discrete" THEN 8 ELSE 0,
       discretization |-> d, noise_schedule |-> ns] :
      v \in Variants, m \in FixMasks, c \in BOOLEAN, b \in Bounds, pn \in BOOLEAN,
      d \in DiscretizationKinds, ns \in NoiseScheduleKinds }

ConstructionInit ==
    /\ args \in {a \in Constructions : a.variant = "discrete" \/ a.discretization = "uniform"}
    /\ pc = "construct"
    /\ self = None /\ ret = None /\ err = ""
    /\ xt = None /\ log = None /\ loc = None /\ buffer = <<>> /\ calls = None
    /\ step = None /\ post = None

\* BaseDiffusionSDE.__init__ and, in the discrete class, self.diffusion_steps
ConstructBase ==
    /\ pc = "construct"
    /\ self' = [variant |-> args.variant, fix_mask |-> args.fix_mask,
                classifier |-> args.classifier, epsilon |-> args.epsilon,
                x_max |-> args.x_max, x_min |-> args.x_min,
                predict_noise |-> args.predict_noise,
                diffusion_steps |-> args.diffusion_steps, t_diffusion |-> None,
                alpha |-> None, sigma |-> None, logSNR |-> None]
    /\ pc' = "range"
    /\ UNCHANGED <<args, err, xt, log, loc, buffer, calls, step, post, ret>>

\* DiscreteDiffusionSDE.__init__: the discretization of [epsilon, 1]
SetDiscretization ==
    /\ pc = "range"
    /\ self.variant = "discrete"
    /\ IF DiscretizationKnown(args.discretization)
       THEN /\ self' = [self EXCEPT !.t_diffusion =
                           UniformDiscretization(args.diffusion_steps, args.epsilon)]
            /\ pc' = "noise"
            /\ err' = ""
       ELSE /\ pc' = "raised"
            /\ err' = "ValueError"
            /\ self' = self
    /\ UNCHANGED <<args, xt, log, loc, buffer, calls, step, post, ret>>

\* ContinuousDiffusionSDE.__init__: the continuous time range
SetTimeRange ==
    /\ pc = "range"
    /\ self.variant = "continuous"
    /\ self' = [self EXCEPT !.t_diffusion = TimeRange(args.epsilon, args.noise_schedule)]
    /\ pc' = "noise"
    /\ UNCHANGED <<args, err, xt, log, loc, buffer, calls, step, post, ret>>

\* __init__: the noise schedule; the discrete class evaluates it on its ladder
SetNoiseSchedule ==
    /\ pc = "noise"
    /\ IF NoiseScheduleKnown(args.noise_schedule)
       THEN LET alpha == Tup([j \in 1..args.diffusion_steps |->
                                 NoiseScheduleForward(self.t_diffusion[j]).alpha])
                sigma == Tup([j \in 1..args.diffusion_steps |->
                                 NoiseScheduleForward(self.t_diffusion[j]).sigma])
                built == IF self.variant = "discrete"
                         THEN [self EXCEPT !.alpha = alpha, !.sigma = sigma,
                                           !.logSNR = Tup([j \in 1..args.diffusion_steps |->
                                                             Log(RDiv(alpha[j], sigma[j]))])]
                         ELSE self
            IN  /\ self' = built
                /\ ret' = built
                /\ pc' = "constructed"
                /\ err' = ""
       ELSE /\ pc' = "raised"
            /\ err' = "ValueError"
            /\ UNCHANGED <<self, ret>>
    /\ UNCHANGED <<args, xt, log, loc, buffer, calls, step, post>>

ConstructionNext == ConstructBase \/ SetDiscretization \/ SetTimeRange \/ SetNoiseSchedule

ConstructionSpec == ConstructionInit /\ [][ConstructionNext]_vars

\* C15: constructing either sampler with a noise_schedule string that is not
\* registered or a noise_schedule of an unsupported type, or the discrete
\* sampler with a discretization string that is not registered or a
\* discretization of an unsupported type, raises ValueError: the construction
\* never completes and no object is returned.
C15_ConstructionFails ==
    (\/ args.noise_schedule \in {"unregistered", "number"}
     \/ args.variant = "discrete" /\ args.discretization \in {"unregistered", "number"})
    => /\ pc # "constructed"
       /\ ret = None
       /\ (pc = "raised" => err = "ValueError")
       /\ (pc = "noise" => args.noise_schedule \in {"unregistered", "number"})
       /\ (self # None => self.alpha = None /\ self.sigma = None)

\* C15 witness: the construction of a discrete sampler with a registered
\* discretization and an unregistered noise schedule has raised ValueError
\* after its time ladder was built.
C15_Witness ==
    /\ pc = "raised"
    /\ err = "ValueError"
    /\ args.variant = "discrete"
    /\ args.discretization = "uniform"
    /\ args.noise_schedule = "unregistered"
    /\ self.t_diffusion # None
    /\ ret = None

\* the index the k-th iteration of a call processes
IndexOfIteration(k) == IF k <= args.sample_steps THEN args.sample_steps - k + 1 ELSE 1

\* C16: the loop processes the indices sample_steps, sample_steps - 1, ..., 1
\* and then index 1 a further diffusion_x_sampling_steps times; no index is
\* processed before a larger one; the iteration at index i evaluates the
\* predictor at time sample_step_schedule[i], converts with alpha and sigma at
\* index i and updates with those at indices i and i - 1.
C16_LoopOrder ==
    /\ [](step.i >= 1 =>
            /\ step.i = IndexOfIteration(calls.iterations)
            /\ step.t = StepTime(self, loc.sample_step_schedule, step.i)
            /\ \A k \in DOMAIN step.predictor :
                  step.predictor[k].t = step.t /\ step.predictor[k].xt = step.xt_in
            /\ (self.predict_noise =>
                   step.x_theta = Stored(epstheta_to_xtheta(step.xt_in, At(loc.alphas, step.i),
                                                            At(loc.sigmas, step.i),
                                                            step.eps_theta)))
            /\ (~self.predict_noise =>
                   step.eps_theta = Stored(xtheta_to_epstheta(step.xt_in, At(loc.alphas, step.i),
                                                              At(loc.sigmas, step.i),
                                                              step.x_theta)))
            /\ \E noise \in NoiseDraws :
                  step.xt_solver =
                     SolverStep(args.solver, step.i, args.sample_steps, step.xt_in,
                                loc.alphas, loc.sigmas, loc.hs, loc.stds, step.eps_theta,
                                step.x_theta, step.buffer_in, noise).xt)
    /\ [](pc \in {"post", "done"} =>
            calls.iterations = args.sample_steps + args.diffusion_x_sampling_steps)
    /\ [][step.i >= 1 => step'.i <= step.i]_vars

\* C16 witness: a call with sample_steps = 3 and one repetition has run its
\* fourth iteration, at index 1, at the time of schedule point 1.
C16_Witness ==
    /\ pc = "post"
    /\ args.sample_steps = 3
    /\ args.diffusion_x_sampling_steps = 1
    /\ calls.iterations = 4
    /\ step.i = 1
    /\ step.t = StepTime(self, loc.sample_step_schedule, 1)
    /\ step.t # StepTime(self, loc.sample_step_schedule, 2)

\* the two multistep solvers
MultistepSolvers == {"ode_dpmsolver++_2M", "sde_dpmsolver++_2M"}

\* the last step was the update of its solver family with x in place of the
\* data prediction
LastStepUsed(x) ==
    IF args.solver = "ode_dpmsolver++_2M"
    THEN step.xt_solver =
            Stored(OdeDataForm(step.i, step.xt_in, loc.alphas, loc.sigmas, loc.hs, x))
    ELSE \E noise \in NoiseDraws :
            step.xt_solver =
               Stored(SdeDataForm(step.i, step.xt_in, loc.alphas, loc.sigmas, loc.hs, x, noise))

\* C17 (as stated): on the final step of a call (index 1, the update that
\* produces the returned state) the multistep solvers use x_theta itself and
\* not the extrapolation D, for every sample_steps >= 2.
C17_FinalStepFirstOrder ==
    (/\ args.solver \in MultistepSolvers
     /\ pc \in {"post", "done"}
     /\ args.sample_steps >= 2)
    => step.i = 1 /\ step.form = "x_theta" /\ LastStepUsed(step.x_theta)

\* C17 (amended): the multistep solvers use the first-order form, x_theta
\* itself, on the steps with index i = sample_steps (the first step of a
\* call, for which no h_{i+1} exists), and the extrapolation D on every step
\* with i < sample_steps; the final step of a call with sample_steps >= 2 has
\* index 1 and uses D.
C17_FirstStepFirstOrder ==
    (args.solver \in MultistepSolvers /\ step.i >= 1) =>
        /\ (step.i = args.sample_steps =>
               step.form = "x_theta" /\ LastStepUsed(step.x_theta))
        /\ (step.i < args.sample_steps =>
               step.form = "D" /\ LastStepUsed(C10_Extrapolation))
        /\ (pc \in {"post", "done"} /\ args.sample_steps >= 2 =>
               step.i = 1 /\ step.form = "D")

\* C17 witness: sde_dpmsolver++_2M has run the final step of a call with
\* sample_steps >= 2, at index 1, with an extrapolation that differs from
\* x_theta and a result that is not the first-order one.
C17_Witness ==
    /\ pc = "post"
    /\ args.solver = "sde_dpmsolver++_2M"
    /\ args.sample_steps >= 2
    /\ step.i = 1
    /\ step.form = "D"
    /\ C10_Extrapolation # step.x_theta
    /\ ~LastStepUsed(step.x_theta)

\* the offsets of the history a complete call writes, in order
HistoryWrites ==
    <<0>> \o Tup([k \in 1..(args.sample_steps + args.diffusion_x_sampling_steps) |->
                    IF k <= args.sample_steps THEN k ELSE args.sample_steps])

\* C18 (as stated): with preserve_history the history is written at disjoint
\* offsets: no offset is written more than once, for every sample_steps and
\* every diffusion_x_sampling_steps.
C18_DisjointWrites ==
    \A j, k \in DOMAIN log.written : j # k => log.written[j] # log.written[k]

\* C18 (amended): with preserve_history the offsets 0 .. sample_steps - 1 are
\* written once each, in increasing order, and offset sample_steps is written
\* 1 + diffusion_x_sampling_steps times: once by step 1 and again by each of
\* its repetitions, the last write holding the final state; without
\* repetitions no offset is written twice. Without preserve_history nothing
\* is written.
C18_RepetitionsOverwrite ==
    /\ (~args.preserve_history => log.written = <<>>)
    /\ (args.preserve_history /\ pc \in {"prepare", "loop", "post", "done"} =>
          /\ log.written = SubSeq(HistoryWrites, 1, 1 + calls.iterations)
          /\ (args.diffusion_x_sampling_steps = 0 =>
                 \A j, k \in DOMAIN log.written :
                    j # k => log.written[j] # log.written[k])
          /\ (pc \in {"post", "done"} =>
                 /\ \A o \in 0..(args.sample_steps - 1) :
                       Cardinality({k \in DOMAIN log.written : log.written[k] = o}) = 1
                 /\ Cardinality({k \in DOMAIN log.written :
                                    log.written[k] = args.sample_steps})
                       = 1 + args.diffusion_x_sampling_steps))
    /\ (args.preserve_history /\ pc = "post" =>
          log.sample_history[args.sample_steps + 1] = xt)

\* C18 witness: a call with history, sample_steps = 2 and one repetition has
\* written offset 2 twice, the second time with a different state.
C18_Witness ==
    /\ pc = "post"
    /\ args.preserve_history
    /\ args.sample_steps = 2
    /\ args.diffusion_x_sampling_steps = 1
    /\ log.written = <<0, 1, 2, 2>>
    /\ step.xt_in # xt

\* every coordinate of x lies inside the configured bounds of the sampler
InsideBounds(x) ==
    \A c \in DOMAIN x :
        /\ ~IsNaN(x[c])
        /\ (self.x_max # None => RLe(x[c], self.x_max[c]))
        /\ (self.x_min # None => RLe(self.x_min[c], x[c]))

\* the data form of the unclipped prediction of the step just run
UnclippedDataForm ==
    IF self.predict_noise
    THEN epstheta_to_xtheta(step.xt_in, At(loc.alphas, step.i), At(loc.sigmas, step.i), step.pred)
    ELSE step.pred

\* C19: in the discrete sampler, at every step with alpha_i > 0 and
\* sigma_i > 0, the data-form prediction x_theta after clip_prediction and
\* the conversion lies inside every configured bound (<= x_max when x_max is
\* set, >= x_min when x_min is set) in noise-prediction and in
\* data-prediction mode; when neither bound is set the clipped prediction is
\* the guided prediction unchanged.
C19_ClippedInsideBounds ==
    (self.variant = "discrete" /\ pc \in {"loop", "post"} /\ calls.iterations >= 1
        /\ RLt(R(0), At(loc.alphas, step.i)) /\ RLt(R(0), At(loc.sigmas, step.i)))
    => /\ InsideBounds(step.x_theta)
       /\ (~clip_pred(self) =>
              /\ clip_prediction(self, step.pred, step.xt_in, At(loc.alphas, step.i),
                                 At(loc.sigmas, step.i)) = step.pred
              /\ (IF self.predict_noise THEN step.eps_theta ELSE step.x_theta) = step.pred)

\* C19 witness: a discrete sampler in noise-prediction mode with only x_min
\* set has run a step whose unclipped prediction was outside the bound in
\* data form, and x_theta lies on the bound.
C19_Witness ==
    /\ self.variant = "discrete"
    /\ pc \in {"loop", "post"}
    /\ calls.iterations >= 1
    /\ self.predict_noise
    /\ self.x_max = None
    /\ self.x_min # None
    /\ ~InsideBounds(UnclippedDataForm)
    /\ \E c \in DOMAIN step.x_theta : step.x_theta[c] = self.x_min[c]

\* classifier guidance takes part in the steps of the call
Guided == self.classifier /\ args.w_cg # R(0)

\* C20: in each loop iteration classifier.gradients is called exactly once
\* if a classifier is attached and w_cg # 0, and not at all otherwise; then
\* the guided prediction is the CFG prediction unchanged and the log_p of the
\* step is None. When called, it receives the state xt the iteration started
\* with, the state the predictor was evaluated on, with the time of the step
\* and the CG condition.
C20_GradientsOncePerStep ==
    (pc \in {"loop", "post", "done"} /\ calls.iterations >= 1)
    => /\ Len(step.gradients) = (IF Guided THEN 1 ELSE 0)
       /\ calls.gradients = (IF Guided THEN calls.iterations ELSE 0)
       /\ (~Guided => step.pred = step.pred_cfg /\ step.logp = None)
       /\ (Guided =>
             /\ step.gradients[1] =
                   [xt |-> step.xt_in, t |-> step.t, condition |-> loc.condition_vec_cg]
             /\ step.logp = <<ClassifierGradients(step.xt_in, step.t,
                                                  loc.condition_vec_cg).log_p>>
             /\ step.predictor # <<>>
             /\ \A q \in DOMAIN step.predictor : step.predictor[q].xt = step.xt_in)

\* C20 witness: the second iteration of a call with a classifier and
\* w_cg # 0 asked for the gradients at its own state, which differs from the
\* initial one, and the guidance changed the CFG prediction.
C20_Witness ==
    /\ pc \in {"loop", "post"}
    /\ calls.iterations = 2
    /\ Guided
    /\ args.preserve_history
    /\ calls.gradients = 2
    /\ step.gradients[1].xt = step.xt_in
    /\ step.xt_in # log.sample_history[1]
    /\ step.pred # step.pred_cfg

\* the number of loop iterations run so far whose index is above 1
IterationsAboveOne ==
    IF calls.iterations < args.sample_steps THEN calls.iterations ELSE args.sample_steps - 1

\* C21: solver ddpm adds the random term std_i * noise only in iterations
\* with i > 1: the iteration with i = 1 and every repetition of index 1 draw
\* no random value, the draws of a call are the one of the initial state and
\* one per iteration with i > 1, and the result of an iteration with i = 1 is
\* the same whatever the random source would return.
C21_DdpmNoiseAboveOne ==
    args.solver = "ddpm" =>
        /\ (pc \in {"loop", "post", "done"} /\ calls.iterations >= 1 =>
               step.randn = (step.i > 1))
        /\ (pc \in {"prepare", "loop", "post", "done"} =>
               calls.randn = 1 + IterationsAboveOne)
        /\ (pc = "loop" /\ Head(loc.remaining) = 1 =>
               \A n1, n2 \in NoiseDraws : NextIteration(n1) = NextIteration(n2))

\* C21 witness: a ddpm call with three steps and one repetition stands
\* before its last iteration, the repetition of index 1: the iterations at 3
\* and 2 drew a value each, the first iteration at index 1 drew none.
C21_Witness ==
    /\ args.solver = "ddpm"
    /\ args.sample_steps = 3
    /\ args.diffusion_x_sampling_steps = 1
    /\ pc = "loop"
    /\ calls.iterations = 3
    /\ loc.remaining = <<1>>
    /\ step.i = 1
    /\ ~step.randn
    /\ calls.randn = 3

\* a value no step of the explored calls predicts
Poison == <<R(7), R(7)>>

\* the step memory with every entry but the newest replaced
Garbled(buf) == Tup([k \in 1..Len(buf) |-> IF k = Len(buf) THEN buf[k] ELSE Poison])

\* the state the next loop iteration produces when the step memory is buf
NextStateFrom(buf, noise) ==
    LET i == Head(loc.remaining)
        gs == guided_sampling(self, xt, StepTime(self, loc.sample_step_schedule, i),
                              At(loc.alphas, i), At(loc.sigmas, i),
                              loc.condition_vec_cfg, args.w_cfg, loc.condition_vec_cg, args.w_cg)
    IN  IF gs.raised # "" THEN None
        ELSE IterationBody(self, args, loc, xt, buf, i, gs, noise).xt

\* C22: for the two multistep solvers the step memory starts empty and grows
\* by exactly one data-form prediction per loop iteration, to the length
\* sample_steps + diffusion_x_sampling_steps at the end, and an iteration
\* reads its last two entries only (the one it appends and the one before):
\* its result does not change when every older entry is replaced. For the
\* six other solvers the memory stays empty for the whole call.
C22_StepMemory ==
    pc \in {"call", "prepare", "loop", "post", "done"} =>
        IF args.solver \in MultistepSolvers
        THEN /\ Len(buffer) = calls.iterations
             /\ (calls.iterations >= 1 => buffer = Append(step.buffer_in, step.x_theta))
             /\ (pc \in {"post", "done"} =>
                    Len(buffer) = args.sample_steps + args.diffusion_x_sampling_steps)
             /\ (pc = "loop" =>
                    \A noise \in NoiseDraws :
                        NextStateFrom(buffer, noise) = NextStateFrom(Garbled(buffer), noise))
        ELSE buffer = <<>>

\* C22 witness: a multistep call with three steps and one repetition stands
\* before its last iteration with three entries in the memory, two of them
\* older than the ones the iteration reads; the newest entry is read: the
\* result changes with it.
C22_Witness ==
    /\ args.solver \in MultistepSolvers
    /\ args.sample_steps = 3
    /\ args.diffusion_x_sampling_steps = 1
    /\ pc = "loop"
    /\ Len(buffer) = 3
    /\ Garbled(buffer) # buffer
    /\ buffer[3] # buffer[2]
    /\ NextStateFrom(buffer, <<R(1), R(-1)>>)
          # NextStateFrom(<<buffer[1], buffer[2], buffer[2]>>, <<R(1), R(-1)>>)

\* the arrays of the call with index 0 of hs and of stds replaced
WithoutIndexZero(lc) ==
    [lc EXCEPT !.hs = Tup([k \in 1..Len(@) |-> IF k = 1 THEN Frac(1, 2) ELSE @[k]]),
               !.stds = Tup([k \in 1..Len(@) |-> IF k = 1 THEN Frac(1, 2) ELSE @[k]])]

\* what the next loop iteration computes when the arrays of the call are lc
NextIterationWith(lc, noise) ==
    LET i == Head(loc.remaining)
        gs == guided_sampling(self, xt, StepTime(self, loc.sample_step_schedule, i),
                              At(loc.alphas, i), At(loc.sigmas, i),
                              loc.condition_vec_cfg, args.w_cfg, loc.condition_vec_cg, args.w_cg)
    IN  IF gs.raised # "" THEN [raised |-> gs.raised]
        ELSE IterationBody(self, args, lc, xt, buffer, i, gs, noise)

\* C23: index 0 of hs and stds is never read during a sampling call: with
\* other values at index 0 every loop iteration computes the same update,
\* the same step memory and the same history offset and value, for every
\* solver, at
\* every processed index including i = sample_steps, i = 1 and its
\* repetitions; the look-ahead r = hs[i + 1] / hs[i] is taken at i >= 1 only.
C23_IndexZeroDead ==
    /\ (pc = "loop" =>
          /\ Head(loc.remaining) >= 1
          /\ loc.hs[1] # WithoutIndexZero(loc).hs[1]
          /\ loc.stds[1] # WithoutIndexZero(loc).stds[1]
          /\ \A noise \in NoiseDraws :
                NextIterationWith(WithoutIndexZero(loc), noise) = NextIterationWith(loc, noise))
    /\ (pc \in {"loop", "post", "done"} /\ calls.iterations >= 1 => step.i >= 1)

\* C23 witness: a multistep call with history stands before an iteration at
\* index 1 that extrapolates, reading hs[2] and hs[1], and before that ran
\* the boundary iteration i = sample_steps.
C23_Witness ==
    /\ pc = "loop"
    /\ args.solver \in MultistepSolvers
    /\ args.preserve_history
    /\ args.sample_steps >= 2
    /\ Head(loc.remaining) = 1
    /\ calls.iterations >= 1
    /\ NextIterationWith(loc, <<R(1), R(-1)>>).form = "D"
    /\ NextIterationWith([loc EXCEPT !.hs = Tup([k \in 1..Len(@) |->
                                          IF k = 2 THEN RAdd(@[k], R(1)) ELSE @[k]])],
                         <<R(1), R(-1)>>).xt
          # NextIterationWith(loc, <<R(1), R(-1)>>).xt

\* ------------------------------------------------------------------------
\* The times of a continuous warm start, over noise schedules and levels
\* ------------------------------------------------------------------------
WarmStartLevels == {R(0), Frac(1, 4), Frac(3, 10), Frac(1, 2), Frac(3, 4), R(1)}
WarmStartEpsilons == {Frac(1, 1000), Frac(1, 8)}

\* a continuous sampler of each time range and a call with or without reference
WarmStartInit ==
    /\ self \in { [variant |-> "continuous", epsilon |-> e, noise_schedule |-> ns,
                   t_diffusion |-> TimeRange(e, ns)] :
                  e \in WarmStartEpsilons, ns \in {"cosine", "linear"} }
    /\ args \in { [warm_start_reference |-> ref, warm_start_forward_level |-> lv,
                   sample_steps |-> n, sample_step_schedule |-> k] :
                  ref \in {None, Reference}, lv \in WarmStartLevels,
                  n \in 1..MaxSampleSteps, k \in {"registered", "callable"} }
    /\ pc = "call"
    /\ loc = None
    /\ err = "" /\ xt = None /\ log = None /\ buffer = <<>> /\ calls = None
    /\ step = None /\ post = None /\ ret = None

\* sample(): the forward time of the reference and the range of the call
WarmStartRange ==
    /\ pc = "call"
    /\ loc' = IF UseWarmStart(args)
              THEN [warm_start |-> TRUE, forward_at |-> WarmStartTime(self, args),
                    t_diffusion |-> <<self.t_diffusion[1], WarmStartLevel(self, args)>>,
                    diffusion_steps |-> 0, sample_step_schedule |-> None]
              ELSE [warm_start |-> FALSE, forward_at |-> None,
                    t_diffusion |-> self.t_diffusion,
                    diffusion_steps |-> 0, sample_step_schedule |-> None]
    /\ pc' = "prepare"
    /\ UNCHANGED <<self, args, err, xt, log, buffer, calls, step, post, ret>>

\* sample(): the step schedule over the range of the call
WarmStartSchedule ==
    /\ pc = "prepare"
    /\ loc' = [loc EXCEPT !.sample_step_schedule = StepSchedule(self, args, loc)]
    /\ pc' = "loop"
    /\ UNCHANGED <<self, args, err, xt, log, buffer, calls, step, post, ret>>

WarmStartNext == WarmStartRange \/ WarmStartSchedule

WarmStartSpec == WarmStartInit /\ [][WarmStartNext]_vars

\* C24: in the continuous sampler with warm start (reference given,
\* 0 < level < 1) the time at which the reference is forward-diffused equals
\* the upper end of the shrunk interval [epsilon, epsilon + level * (t_max -
\* epsilon)], the last point of the step schedule built over it, for every
\* noise schedule including cosine.
C24_ForwardTimeIsUpperEnd ==
    (pc \in {"prepare", "loop"} /\ loc.warm_start) =>
        /\ loc.t_diffusion =
              <<self.epsilon,
                RAdd(self.epsilon, RMul(args.warm_start_forward_level,
                                        RSub(self.t_diffusion[2], self.epsilon)))>>
        /\ loc.forward_at = loc.t_diffusion[2]
        /\ (pc = "loop" => loc.forward_at = At(loc.sample_step_schedule, args.sample_steps))

\* w_cfg is neither 0 nor 1 and there is no CFG condition to encode
MalformedCondition == args.w_cfg \notin {R(0), R(1)} /\ args.condition_cfg = None

\* C25: when w_cfg is neither 0 nor 1 and the encoded CFG condition is
\* neither a tensor nor a dict (condition_cfg = None), the call raises
\* ValueError in its first loop iteration, before any predictor evaluation
\* and before any solver update, and never returns a sample.
C25_MalformedConditionRaises ==
    (MalformedCondition /\ args.solver \in SUPPORTED_SOLVERS /\ ScheduleKnown(args)) =>
        /\ pc \notin {"post", "done"}
        /\ ret = None
        /\ calls.predictor = 0 /\ calls.gradients = 0
        /\ calls.solver = 0 /\ calls.iterations = 0
        /\ (pc = "prepare" => loc.condition_vec_cfg = None)
        /\ (pc = "loop" =>
              /\ loc.condition_vec_cfg = None
              /\ Len(loc.remaining) = args.sample_steps + args.diffusion_x_sampling_steps
              /\ \A noise \in NoiseDraws : NextIteration(noise) = [raised |-> "ValueError"])
        /\ (pc = "raised" =>
              /\ err = "ValueError"
              /\ Len(loc.remaining) = args.sample_steps + args.diffusion_x_sampling_steps)

\* C25 witness: a call with w_cfg = 1/2 and no condition has raised
\* ValueError from the loop, the whole loop still ahead and the initial
\* state drawn.
C25_Witness ==
    /\ MalformedCondition
    /\ pc = "raised"
    /\ err = "ValueError"
    /\ args.w_cfg = Frac(1, 2)
    /\ calls.randn = 1
    /\ calls.predictor = 0
    /\ Len(loc.remaining) = args.sample_steps + args.diffusion_x_sampling_steps
    /\ xt # None

\* the state the last loop iteration produced
LastLoopState == ApplyFixMask(step.xt_solver, args.prior, self.fix_mask)

\* C26: the final classifier log-probability is evaluated at time index 0 on
\* the state produced by the last loop iteration, before the final clip to
\* the data range; the sample returned is that state clipped, so when bounds
\* are configured and the clip changes the state, the reported log_p belongs
\* to a state different from the returned sample.
C26_LogpBeforeClip ==
    (pc = "done" /\ "log_p" \in log.keys) =>
        /\ calls.logp = 1
        /\ post.logp_t = R(0)
        /\ post.logp_xt = LastLoopState
        /\ log.log_p = <<ClassifierLogp(LastLoopState, R(0), loc.condition_vec_cg)>>
        /\ ret = (IF clip_pred(self) THEN TClip(LastLoopState, self.x_min, self.x_max)
                  ELSE LastLoopState)
        /\ (ClipChanges(LastLoopState) => ret # post.logp_xt)
        /\ (~ClipChanges(LastLoopState) => ret = post.logp_xt)

\* C26 witness: a call with a classifier and bounds has returned a sample
\* that the final clip changed; the log_p reported is the one of the
\* unclipped state and differs from the log_p of the returned sample.
C26_Witness ==
    /\ pc = "done"
    /\ "log_p" \in log.keys
    /\ clip_pred(self)
    /\ ret # post.logp_xt
    /\ log.log_p = <<ClassifierLogp(post.logp_xt, R(0), loc.condition_vec_cg)>>
    /\ log.log_p # <<ClassifierLogp(ret, R(0), loc.condition_vec_cg)>>

\* the indices of the schedule arrays of a call: 0 .. sample_steps
ArrayIndices == 0..args.sample_steps

\* C27: for every solver, every sample_steps >= 1 and every number of
\* repetitions, every indexed read and write of the loop is in range: the
\* arrays hold sample_steps + 1 entries, alphas and sigmas are read at i and
\* i - 1 with 0 <= i - 1, hs[i + 1] is read only when i + 1 <= sample_steps,
\* buffer[-2] is read only when the buffer holds at least two entries, and
\* every history write offset sample_steps - i + 1 lies in 1..sample_steps,
\* inside the sample_steps + 1 slots of the history.
C27_IndicesInRange ==
    /\ (pc = "loop" =>
          LET i == Head(loc.remaining)
              multistep == args.solver \in MultistepSolvers
          IN  /\ Len(loc.alphas) = args.sample_steps + 1
              /\ Len(loc.sigmas) = args.sample_steps + 1
              /\ Len(loc.hs) = args.sample_steps + 1
              /\ Len(loc.stds) = args.sample_steps + 1
              /\ Len(loc.sample_step_schedule) = args.sample_steps + 1
              /\ i \in ArrayIndices
              /\ i - 1 \in ArrayIndices
              /\ (multistep /\ Extrapolates(i, args.sample_steps) =>
                     /\ i + 1 \in ArrayIndices
                     /\ Len(RememberStep(buffer, Poison)) >= 2)
              /\ HistoryOffset(args.sample_steps, i) \in 1..args.sample_steps
              /\ (args.preserve_history =>
                     HistoryOffset(args.sample_steps, i) + 1 \in DOMAIN log.sample_history))
    /\ (pc \in {"loop", "post", "done"} /\ calls.iterations >= 1 =>
          /\ step.i \in 1..args.sample_steps
          /\ step.offset \in 1..args.sample_steps
          /\ (step.form = "D" =>
                 /\ step.i + 1 <= args.sample_steps
                 /\ Len(step.buffer_in) >= 1))

\* C27 witness: a multistep call with history and three steps has run the
\* iterations at i = 3 and i = 2, the second one extrapolating from hs[3]
\* and two buffer entries and writing offset 2, and stands before the
\* iteration at i = 1, which reads index 0 of alphas and sigmas.
C27_Witness ==
    /\ args.solver \in MultistepSolvers
    /\ args.preserve_history
    /\ args.sample_steps = 3
    /\ pc = "loop"
    /\ Head(loc.remaining) = 1
    /\ step.i = 2
    /\ step.form = "D"
    /\ step.offset = 2
    /\ Len(step.buffer_in) = 1
    /\ Len(buffer) = 2
====
